---- MODULE Spec2Model ----
(***************************************************************************)
(* Model of the class/session store (classes_manager.py), of the           *)
(* insight/summary generator and the question answering built on it        *)
(* (class_agent.py), and of the chat calls these make (ai_agent.py).       *)
(*                                                                         *)
(* The store is one ClassesManager used by one thread: the in-memory index *)
(* self.classes, the index file classes.json, the per-class directories    *)
(* and the per-session files.  Every public method is one action.  Random  *)
(* tokens (uuid4), the wall clock, the outcome of file removals and the    *)
(* replies of the language-model provider are inputs of the actions.       *)
(***************************************************************************)
EXTENDS Integers, Sequences, FiniteSets, TLC

VARIABLES
    classes,        \* self.classes: class_id -> class record (in memory)
    index_file,     \* contents of <root>/classes.json
    class_dirs,     \* class ids whose directory classes/<id> exists
    sessions_dirs,  \* class ids whose directory classes/<id>/sessions exists
    session_files,  \* <<class_id, session_id>> -> payload of sessions/<session_id>.json
    now,            \* the last value the wall clock was read at
    ops,            \* number of operations performed so far
    returned,       \* class_id -> session ids returned by add_session since the index entry was made
    last,           \* the last operation: its call, its outcome, the model requests it issued
    environ,        \* os.environ: LLM_PROVIDER, ASR_MODE, the model name, which API keys are set
    agent,          \* the NvidiaAIAgent: whether it is constructed, its client, model and provider
    settings_file,  \* <storage_path>/settings.json: absent, unreadable, or a JSON map
    settings_mgr,   \* the _cache of api.py's settings_mgr
    agent_settings, \* the _cache of the IntegratedClassAgent's self.settings
    settings_log,   \* what settings_mgr loaded, and the updates it was given since, in call order
    generator,      \* a streamed answer being consumed: the generator chat(stream=True) returned
    threads,        \* the calls of the store in progress on concurrent threads
    classes2        \* self.classes of a second ClassesManager over the same storage root

vars == <<classes, index_file, class_dirs, sessions_dirs, session_files, now, ops, returned, last,
          environ, agent, settings_file, settings_mgr, agent_settings, settings_log,
          generator, threads, classes2>>

\* the settings: the file and the two managers that read it
settings == <<settings_file, settings_mgr, agent_settings, settings_log>>

\* what runs beside a call: a consumer of a stream, other threads, a second manager
running == <<generator, threads, classes2>>

\* the state outside the store
apart == <<environ, agent, settings, running>>

\* an operation of the store or on top of it: the state outside the store is not touched
Quiet == UNCHANGED apart

store == <<classes, index_file, class_dirs, sessions_dirs, session_files>>

-----------------------------------------------------------------------------
(* Bounds and input sets *)

MaxOps == 3

\* Python's None where a string is expected, and where a timestamp is expected
None == "<None>"
NoTime == 0

\* uuid.uuid4().hex[:6] and uuid.uuid4().hex[:10]: any value can be drawn
Hex6 == {"0f3a2c", "b71e09"}
Hex10 == {"5d0c1a9e3b", "e42f7706aa"}

\* arguments of create_class
ClassInputs ==
    { [name |-> <<"A">>, code |-> None, color |-> None],
      [name |-> <<"a">>, code |-> "CS101", color |-> "bg-red-500"],
      [name |-> <<" ">>, code |-> "", color |-> ""] }

\* arguments of add_session (metadata: given or not, a set of key/value pairs)
SessionInputs ==
    { [title |-> "Lecture", content |-> "X", metadata |-> [given |-> FALSE, val |-> {}]],
      [title |-> "", content |-> "Y", metadata |-> [given |-> TRUE, val |-> {<<"source", "pdf">>}]] }

Summaries == {"S1", "S2"}

-----------------------------------------------------------------------------
(* _generate_class_id *)

IsAlnum(ch) == ch \in {"A", "a"}

Lower(ch) == IF ch = "A" THEN "a" ELSE ch

RECURSIVE StripLeft(_)
StripLeft(s) == IF s # <<>> /\ Head(s) = "-" THEN StripLeft(Tail(s)) ELSE s

RECURSIVE StripRight(_)
StripRight(s) ==
    IF s # <<>> /\ s[Len(s)] = "-" THEN StripRight(SubSeq(s, 1, Len(s) - 1)) ELSE s

RECURSIVE Join(_)
Join(s) == IF s = <<>> THEN "" ELSE Head(s) \o Join(Tail(s))

\* "".join(ch if ch.isalnum() else "-" for ch in base).strip("-").lower() or "class"
Slug(base) ==
    LET dashed == [i \in 1..Len(base) |-> IF IsAlnum(base[i]) THEN base[i] ELSE "-"]
        stripped == StripRight(StripLeft(dashed))
        lowered == [i \in 1..Len(stripped) |-> Lower(stripped[i])]
    IN  IF lowered = <<>> THEN "class" ELSE Join(lowered)

_generate_class_id(base, hex) == Slug(base) \o "-" \o hex

ClassIds == { _generate_class_id(i.name, h) : i \in ClassInputs, h \in Hex6 }

\* class ids a caller passes: the ids of the classes in the index, the ids of deleted
\* classes of which a directory is left, and an id that was never made (an id of a
\* class deleted without trace behaves as that one does)
ClassArgs == DOMAIN classes \cup class_dirs \cup {"nonexistent"}

-----------------------------------------------------------------------------
(* Python's "x or default" on strings *)

Or(x, default) == IF x = None \/ x = "" THEN default ELSE x

\* the elements of a sequence
Range(seq) == { seq[i] : i \in 1..Len(seq) }

\* metadata or {}
MetadataOr(m) == IF m.given /\ m.val # {} THEN m.val ELSE {}

-----------------------------------------------------------------------------
(* The record of the last call *)

NoReply == [insights |-> None, summary |-> None]

Call(op, cid, sid, raised, ret) ==
    [op |-> op, cid |-> cid, sid |-> sid, raised |-> raised, ret |-> ret,
     requests |-> <<>>, reply |-> NoReply]

-----------------------------------------------------------------------------
(* Files *)

\* the session ids of the files in the sessions directory of class c
SessionsOf(files, c) == { k[2] : k \in { q \in DOMAIN files : q[1] = c } }

\* a write that leaves the new file alone in its directory
WriteFile_alone(files, c, s, payload) ==
    [k \in { q \in DOMAIN files : q[1] # c } \cup {<<c, s>>} |->
        IF k = <<c, s>> THEN payload ELSE files[k]]

\* open(fpath, "w"); json.dump(payload, f)
WriteFile(files, c, s, payload) ==
    [k \in DOMAIN files \cup {<<c, s>>} |-> IF k = <<c, s>> THEN payload ELSE files[k]]

\* _ensure_class_dirs
_ensure_class_dirs(c) ==
    /\ class_dirs' = class_dirs \cup {c}
    /\ sessions_dirs' = sessions_dirs \cup {c}

\* get_session: the payload of the file, or None when there is no file
get_session(c, s) == IF <<c, s>> \in DOMAIN session_files THEN session_files[<<c, s>>] ELSE None

HasSession(c, s) == <<c, s>> \in DOMAIN session_files

\* session ids a caller passes for class c: those of its session files and one that
\* was never made
SessionArgs(c) == SessionsOf(session_files, c) \cup {"0000000000"}

\* every operation counts, up to the bound
Step == ops < MaxOps /\ ops' = ops + 1

-----------------------------------------------------------------------------
(* The provider selector (ai_agent.py, _configure_client and _ensure_client) *)

\* the client OpenAI(base_url=..., api_key=...) makes: its base URL and the key it holds
Client(base_url, key) == [base_url |-> base_url, api_key |-> key]

NoClient == Client(None, None)

\* the agent before NvidiaAIAgent(api_key) has returned; api_key: whether one is passed
NoAgent(api_key) ==
    [constructed |-> FALSE, init_api_key |-> api_key,
     client |-> NoClient, model |-> "", provider |-> ""]

\* (os.getenv("LLM_PROVIDER") or "nvidia").strip().lower(), for the values of LLMProviders
Normalized(value) ==
    CASE value \in {None, ""} -> "nvidia"
      [] value = " Groq " -> "groq"
      [] value = "OpenAI" -> "openai"
      [] OTHER -> value

\* values LLM_PROVIDER has in the environment (None: not set)
LLMProviders == {None, "nvidia", "groq", " Groq ", "openai", "OpenAI", "mistral"}

\* _configure_client with a missing GROQ_API_KEY raising, as a missing OPENAI_API_KEY does
Configured_groq_required(env, api_key) ==
    LET provider == Normalized(env.LLM_PROVIDER)
        failed(error) == [raised |-> error, client |-> NoClient, model |-> "", provider |-> ""]
    IN  IF provider = "openai"
        THEN IF ~env.OPENAI_API_KEY
             THEN failed("ValueError: OPENAI_API_KEY environment variable is required")
             ELSE [raised |-> None, client |-> Client("default", "OPENAI_API_KEY"),
                   model |-> Or(env.OPENAI_MODEL, "gpt-4o"), provider |-> "openai"]
        ELSE IF provider = "groq"
        THEN IF ~env.GROQ_API_KEY
             THEN failed("ValueError: GROQ_API_KEY environment variable is required")
             ELSE [raised |-> None,
                   client |-> Client("https://api.groq.com/openai/v1", "GROQ_API_KEY"),
                   model |-> "openai/gpt-oss-20b", provider |-> "groq"]
        ELSE IF ~api_key /\ ~env.NVIDIA_API_KEY
        THEN failed("ValueError: API key is required")
        ELSE [raised |-> None,
              client |-> Client("https://integrate.api.nvidia.com/v1",
                                IF api_key THEN "api_key" ELSE "NVIDIA_API_KEY"),
              model |-> "nvidia/llama-3.3-nemotron-super-49b-v1.5", provider |-> "nvidia"]

\* _configure_client: what is raised, or the client, model and provider it assigns
Configured(env, api_key) ==
    LET provider == Normalized(env.LLM_PROVIDER)
        failed(error) == [raised |-> error, client |-> NoClient, model |-> "", provider |-> ""]
    IN  IF provider = "openai"
        THEN IF ~env.OPENAI_API_KEY
             THEN failed("ValueError: OPENAI_API_KEY environment variable is required")
             ELSE [raised |-> None, client |-> Client("default", "OPENAI_API_KEY"),
                   model |-> Or(env.OPENAI_MODEL, "gpt-4o"), provider |-> "openai"]
        ELSE IF provider = "groq" /\ env.GROQ_API_KEY
        THEN [raised |-> None,
              client |-> Client("https://api.groq.com/openai/v1", "GROQ_API_KEY"),
              model |-> "openai/gpt-oss-20b", provider |-> "groq"]
        ELSE IF ~api_key /\ ~env.NVIDIA_API_KEY
        THEN failed("ValueError: API key is required")
        ELSE [raised |-> None,
              client |-> Client("https://integrate.api.nvidia.com/v1",
                                IF api_key THEN "api_key" ELSE "NVIDIA_API_KEY"),
              model |-> "nvidia/llama-3.3-nemotron-super-49b-v1.5", provider |-> "nvidia"]

\* the agent with what _configure_client assigned
WithClient(a, conf) ==
    [a EXCEPT !.client = conf.client, !.model = conf.model, !.provider = conf.provider]

\* _ensure_client that keeps the client of the construction
Ensured_never_again(a, env) == [raised |-> None, agent |-> a]

\* _ensure_client: configure again if the provider named now is not self.provider
Ensured(a, env) ==
    IF Normalized(env.LLM_PROVIDER) # a.provider
    THEN LET conf == Configured(env, a.init_api_key)
         IN  IF conf.raised # None
             THEN [raised |-> conf.raised, agent |-> a]
             ELSE [raised |-> None, agent |-> WithClient(a, conf)]
    ELSE [raised |-> None, agent |-> a]

-----------------------------------------------------------------------------
(* SettingsManager (settings_manager.py) *)

\* the empty dict
NoSettings == <<>>

\* settings.json: state is "absent", "unreadable" (json.load raises) or "json"
File(state, map) == [state |-> state, map |-> map]

\* _load: the map of a readable file, {} for an absent or an unreadable one
_load(file) == IF file.state = "json" THEN file.map ELSE NoSettings

\* _save: json.dump of the whole cache
_save(cache) == File("json", cache)

\* dict.update that drops the keys the update does not name
Updated_replaced(cache, updates) == updates

\* self._cache.update(updates)
Updated(cache, updates) ==
    [k \in DOMAIN cache \cup DOMAIN updates |->
        IF k \in DOMAIN updates THEN updates[k] ELSE cache[k]]

\* settings_mgr takes the updates and saves: the cache, the file, and the log of its calls
Saved(updates) ==
    /\ settings_mgr' = Updated(settings_mgr, updates)
    /\ settings_file' = _save(settings_mgr')
    /\ settings_log' = [settings_log EXCEPT !.writes = Append(@, updates)]
    /\ UNCHANGED agent_settings

\* a result of a call of settings_mgr
SettingsCall(op, ret) == [op |-> op, raised |-> None, ret |-> ret, requests |-> <<>>]

\* SettingsManager.update_settings(updates) of settings_mgr
update_settings(updates) ==
    /\ Step
    /\ Saved(updates)
    /\ last' = SettingsCall("update_settings", settings_mgr')
    /\ UNCHANGED <<store, now, returned, environ, agent, running>>

\* SettingsManager.set(key, value) of settings_mgr
set(key, value) ==
    /\ Step
    /\ Saved(key :> value)
    /\ last' = SettingsCall("set", None)
    /\ UNCHANGED <<store, now, returned, environ, agent, running>>

\* SettingsManager.get_settings() of settings_mgr
get_settings ==
    /\ Step
    /\ last' = SettingsCall("get_settings", settings_mgr)
    /\ UNCHANGED <<store, now, returned, environ, agent, settings, running>>

\* both managers constructed over the file: each loads it once
Constructed(file) ==
    /\ settings_file = file
    /\ settings_mgr = _load(file)
    /\ agent_settings = _load(file)
    /\ settings_log = [loaded |-> _load(file), writes |-> <<>>]

\* no generator, no call in progress, no second manager
NoStream ==
    [chunks |-> <<>>, read |-> 0, pending |-> <<>>, delivered |-> <<>>, state |-> "none", pulls |-> 0]

NotRunning ==
    /\ generator = NoStream
    /\ threads = <<>>
    /\ classes2 = <<>>

\* the environment and the agent of a process started with NVIDIA_API_KEY set and
\* nothing else: the agent is constructed for nvidia
QuietInit ==
    /\ environ = [LLM_PROVIDER |-> None, ASR_MODE |-> None, OPENAI_MODEL |-> None,
                  NVIDIA_API_KEY |-> TRUE, GROQ_API_KEY |-> FALSE, OPENAI_API_KEY |-> FALSE]
    /\ agent = [WithClient(NoAgent(TRUE), Configured(environ, TRUE)) EXCEPT !.constructed = TRUE]
    /\ Constructed(File("absent", NoSettings))
    /\ NotRunning

-----------------------------------------------------------------------------
Init ==
    /\ classes = <<>>
    /\ index_file = <<>>
    /\ class_dirs = {}
    /\ sessions_dirs = {}
    /\ session_files = <<>>
    /\ now = 1
    /\ ops = 0
    /\ returned = [c \in ClassIds |-> <<>>]
    /\ last = Call("init", None, None, None, None)
    /\ QuietInit

\* datetime.now(): the clock has not gone back since it was last read
Clock(t) == t \in {now, now + 1} /\ now' = t


\* the index with the entry of class c set to obj
WithClass(idx, c, obj) == [k \in DOMAIN idx \cup {c} |-> IF k = c THEN obj ELSE idx[k]]

\* the index emptied
WithoutClass_all(idx, c) == [k \in {} |-> idx[k]]

\* the index without the entry of class c
WithoutClass(idx, c) == [k \in DOMAIN idx \ {c} |-> idx[k]]

\* lines 70-79: the record of a new class
ClassObj(inp, class_id, t) ==
    [class_id |-> class_id,
     name |-> inp.name,
     code |-> Or(inp.code, class_id),
     color |-> Or(inp.color, "bg-emerald-500"),
     created_at |-> t,
     updated_at |-> t,
     sessions_count |-> 0,
     last_session_at |-> NoTime]

create_class(inp, hex, t) ==
    LET class_id == _generate_class_id(inp.name, hex)
        obj == ClassObj(inp, class_id, t)
    IN  /\ Step
        /\ Quiet
        /\ Clock(t)
        /\ classes' = WithClass(classes, class_id, obj)
        /\ _ensure_class_dirs(class_id)
        /\ index_file' = classes'
        /\ returned' = [returned EXCEPT ![class_id] = <<>>]
        /\ last' = Call("create_class", class_id, None, None, class_id)
        /\ UNCHANGED session_files

\* lines 134-142: the payload of a new session
Payload(c, session_id, inp, t) ==
    [class_id |-> c,
     session_id |-> session_id,
     title |-> Or(inp.title, "Session " \o session_id),
     content |-> inp.content,
     summary |-> None,
     created_at |-> t,
     metadata |-> MetadataOr(inp.metadata)]

\* Counted without its increment of sessions_count
Counted_no_increment(cl, created_at) ==
    [cl EXCEPT !.updated_at = created_at, !.last_session_at = created_at]

\* lines 149-152: the class record after one more session, created at created_at
Counted(cl, created_at) ==
    [cl EXCEPT !.sessions_count = cl.sessions_count + 1,
               !.updated_at = created_at,
               !.last_session_at = created_at]

\* the class lookup made after _ensure_class_dirs instead of before it
add_session_not_found_after_dirs(c) ==
    /\ last' = Call("add_session", c, None, "ValueError: Class not found", None)
    /\ _ensure_class_dirs(c)
    /\ UNCHANGED <<classes, index_file, session_files, now, returned>>

\* lines 130-131: raise ValueError("Class not found")
add_session_not_found(c) ==
    /\ last' = Call("add_session", c, None, "ValueError: Class not found", None)
    /\ UNCHANGED <<store, now, returned>>

add_session(c, inp, tok, t) ==
    /\ Step
    /\ Quiet
    /\ IF c \notin DOMAIN classes
       THEN add_session_not_found(c)
       ELSE LET session_id == tok
                payload == Payload(c, session_id, inp, t)
            IN  /\ Clock(t)
                /\ _ensure_class_dirs(c)
                /\ session_files' = WriteFile(session_files, c, session_id, payload)
                /\ classes' = WithClass(classes, c, Counted(classes[c], payload.created_at))
                /\ index_file' = classes'
                /\ returned' = [returned EXCEPT ![c] = Append(@, session_id)]
                /\ last' = Call("add_session", c, session_id, None, session_id)

\* add_session stopped after the session file was written (line 146) and before the
\* counters and the index file were (lines 149-153): the process ended there, and the
\* store is next seen by a manager constructed over the same root (_load_index)
add_session_stopped(c, inp, tok, t) ==
    /\ Step
    /\ Quiet
    /\ c \in DOMAIN classes
    /\ Clock(t)
    /\ _ensure_class_dirs(c)
    /\ session_files' = WriteFile(session_files, c, tok, Payload(c, tok, inp, t))
    /\ classes' = index_file
    /\ last' = Call("add_session", c, tok, "stopped", None)
    /\ UNCHANGED <<index_file, returned>>

\* the summary written over the content of the record
SummaryWritten_over_content(files, c, s, summary) ==
    IF <<c, s>> \in DOMAIN files
    THEN WriteFile(files, c, s, [files[<<c, s>>] EXCEPT !.content = summary])
    ELSE files

\* the file written also when get_session found none
SummaryWritten_also_when_absent(files, c, s, summary) ==
    IF <<c, s>> \in DOMAIN files
    THEN WriteFile(files, c, s, [files[<<c, s>>] EXCEPT !.summary = summary])
    ELSE WriteFile(files, c, s, [summary |-> summary])

\* the summary added to the end of the one the record has
SummaryWritten_appended(files, c, s, summary) ==
    IF <<c, s>> \in DOMAIN files
    THEN WriteFile(files, c, s,
                   [files[<<c, s>>] EXCEPT !.summary = IF @ = None THEN summary ELSE @ \o summary])
    ELSE files

\* the files after update_session_summary: a read-modify-write of the one session
\* file, and nothing when there is no such file
SummaryWritten(files, c, s, summary) ==
    IF <<c, s>> \in DOMAIN files
    THEN WriteFile(files, c, s, [files[<<c, s>>] EXCEPT !.summary = summary])
    ELSE files

\* update_session_summary raising when get_session finds no record
update_session_summary_absent_raises(c, s, summary) ==
    /\ Step
    /\ Quiet
    /\ session_files' = SummaryWritten(session_files, c, s, summary)
    /\ last' = [op |-> "update_session_summary", cid |-> c, sid |-> s,
                raised |-> IF HasSession(c, s) THEN None ELSE "ValueError: Session not found",
                ret |-> None, requests |-> <<>>, reply |-> NoReply,
                summary |-> summary,
                again |-> /\ last.op = "update_session_summary"
                          /\ last.cid = c /\ last.sid = s /\ last.summary = summary]
    /\ UNCHANGED <<classes, index_file, class_dirs, sessions_dirs, now, returned>>

update_session_summary(c, s, summary) ==
    /\ Step
    /\ Quiet
    /\ session_files' = SummaryWritten(session_files, c, s, summary)
    /\ last' = [op |-> "update_session_summary", cid |-> c, sid |-> s,
                raised |-> None, ret |-> None, requests |-> <<>>, reply |-> NoReply,
                summary |-> summary,
                again |-> /\ last.op = "update_session_summary"
                          /\ last.cid = c /\ last.sid = s /\ last.summary = summary]
    /\ UNCHANGED <<classes, index_file, class_dirs, sessions_dirs, now, returned>>

\* delete_class.  kept: the files of the class whose os.remove raised;
\* sdir_fails, cdir_fails: whether the rmdir of a directory that is empty raises
\* (the rmdir of a directory that is not empty always does)
delete_class(c, kept, sdir_fails, cdir_fails) ==
    /\ Step
    /\ Quiet
    /\ IF c \notin DOMAIN classes
       THEN /\ last' = Call("delete_class", c, None, None, "False")
            /\ UNCHANGED <<store, returned>>
       ELSE LET listed == IF c \in sessions_dirs THEN SessionsOf(session_files, c) ELSE {}
                remaining == listed \cap kept
                sdir_removed == c \in sessions_dirs /\ remaining = {} /\ ~sdir_fails
                sdir_left == c \in sessions_dirs /\ ~sdir_removed
                cdir_removed == c \in class_dirs /\ ~sdir_left /\ ~cdir_fails
            IN  /\ session_files' =
                       [k \in { q \in DOMAIN session_files : q[1] # c \/ q[2] \in remaining }
                           |-> session_files[k]]
                /\ sessions_dirs' = IF sdir_removed THEN sessions_dirs \ {c} ELSE sessions_dirs
                /\ class_dirs' = IF cdir_removed THEN class_dirs \ {c} ELSE class_dirs
                /\ classes' = WithoutClass(classes, c)
                /\ index_file' = classes'
                /\ returned' = [returned EXCEPT ![c] = <<>>]
                /\ last' = Call("delete_class", c, None, None, "True")
    /\ UNCHANGED now

-----------------------------------------------------------------------------
(* The insight/summary generator (class_agent.py) *)

\* the provider call raised instead of returning a completion
ProviderError == "<provider error>"

\* message.content of the completion of the insights request
InsightsReplies ==
    { None,
      "Here are the insights you asked for.",
      "{}",
      "{\"most_important\": \"- a\", \"questions\": \"q?\"}" }

\* json.loads on these texts: whether it returns, and the dictionary it returns
\* as its set of key/value pairs
JsonLoads(raw) ==
    CASE raw = "{}" -> [ok |-> TRUE, dict |-> {}]
      [] raw = "{\"most_important\": \"- a\", \"questions\": \"q?\"}" ->
             [ok |-> TRUE, dict |-> {<<"most_important", "- a">>, <<"questions", "q?">>}]
      [] OTHER -> [ok |-> FALSE, dict |-> {}]

\* lines 120-131: insights = {}; try: insights = json.loads(raw) except Exception: insights = {}
ParsedInsights(raw) == IF JsonLoads(raw).ok THEN JsonLoads(raw).dict ELSE {}

\* the methods ClassesManager defines
ClassesManagerMethods ==
    { "create_class", "list_classes", "get_class", "delete_class", "add_session",
      "list_sessions", "get_session", "update_session_summary", "get_class_corpus" }

\* json.loads outside the try: a reply that does not parse raises
SummarizeOutcome_parse_raises(found, insights_reply, summary_reply) ==
    LET out(raised, ret, requests, stores) ==
            [raised |-> raised, ret |-> ret, requests |-> requests, stores |-> stores]
    IN  IF ~found
        THEN out("ValueError: Session not found", None, <<>>, FALSE)
        ELSE IF insights_reply = ProviderError
        THEN out(ProviderError, None, <<"insights">>, FALSE)
        ELSE IF ~JsonLoads(insights_reply).ok
        THEN out("JSONDecodeError", None, <<"insights">>, FALSE)
        ELSE IF ParsedInsights(insights_reply) # {}
                /\ "update_session_insights" \notin ClassesManagerMethods
        THEN out("AttributeError: update_session_insights", None, <<"insights">>, FALSE)
        ELSE IF summary_reply = ProviderError
        THEN out(ProviderError, None, <<"insights", "summary">>, FALSE)
        ELSE out(None, summary_reply, <<"insights", "summary">>, TRUE)

\* summarize_session from its session lookup to its return or raise: what is raised,
\* what is returned, the requests issued to the provider, and whether
\* update_session_summary is reached
SummarizeOutcome(found, insights_reply, summary_reply) ==
    LET out(raised, ret, requests, stores) ==
            [raised |-> raised, ret |-> ret, requests |-> requests, stores |-> stores]
    IN  IF ~found
        THEN out("ValueError: Session not found", None, <<>>, FALSE)
        ELSE IF insights_reply = ProviderError
        THEN out(ProviderError, None, <<"insights">>, FALSE)
        ELSE IF ParsedInsights(insights_reply) # {}
                /\ "update_session_insights" \notin ClassesManagerMethods
        THEN out("AttributeError: update_session_insights", None, <<"insights">>, FALSE)
        ELSE IF summary_reply = ProviderError
        THEN out(ProviderError, None, <<"insights", "summary">>, FALSE)
        ELSE out(None, summary_reply, <<"insights", "summary">>, TRUE)

summarize_session(c, s, insights_reply, summary_reply) ==
    LET o == SummarizeOutcome(HasSession(c, s), insights_reply, summary_reply)
    IN  /\ Step
        /\ Quiet
        /\ session_files' = IF o.stores
                            THEN SummaryWritten(session_files, c, s, o.ret)
                            ELSE session_files
        /\ last' = [op |-> "summarize_session", cid |-> c, sid |-> s,
                    raised |-> o.raised, ret |-> o.ret, requests |-> o.requests,
                    reply |-> [insights |-> insights_reply, summary |-> summary_reply]]
        /\ UNCHANGED <<classes, index_file, class_dirs, sessions_dirs, now, returned>>

Next ==
    \/ \E inp \in ClassInputs, hex \in Hex6, t \in {now, now + 1} : create_class(inp, hex, t)
    \/ \E c \in ClassArgs, inp \in SessionInputs, tok \in Hex10, t \in {now, now + 1} :
           add_session(c, inp, tok, t)
    \/ \E c \in ClassArgs, summary \in Summaries :
           \E s \in SessionArgs(c) : update_session_summary(c, s, summary)
    \/ \E c \in ClassArgs, kept \in SUBSET Hex10, sdir_fails \in BOOLEAN, cdir_fails \in BOOLEAN :
           delete_class(c, kept, sdir_fails, cdir_fails)
    \/ \E c \in ClassArgs,
          insights_reply \in InsightsReplies \cup {ProviderError},
          summary_reply \in Summaries \cup {ProviderError} :
           \E s \in SessionArgs(c) : summarize_session(c, s, insights_reply, summary_reply)

Spec == Init /\ [][Next]_vars

\* the same operations, and add_session stopping between its two writes
NextStopping ==
    \/ Next
    \/ \E c \in ClassArgs, inp \in SessionInputs, tok \in Hex10, t \in {now, now + 1} :
           add_session_stopped(c, inp, tok, t)

SpecStopping == Init /\ [][NextStopping]_vars

-----------------------------------------------------------------------------
(* Properties of the session store *)

\* the last operation was an add_session that returned
AddReturned == last.op = "add_session" /\ last.raised = None

\* C1: in every reachable state, a state in which add_session stopped between its
\* two writes included, every class of the index has a sessions_count equal to the
\* number of its persisted session records.
C1_CountMatchesRecords ==
    \A c \in DOMAIN classes :
        classes[c].sessions_count = Cardinality(SessionsOf(session_files, c))

\* the session ids add_session returned for class c since its index entry was made
ReturnedIds(c) == { returned[c][i] : i \in 1..Len(returned[c]) }

C3_CreateNeverReplaces ==
    [][last'.op = "create_class" => last'.ret \notin DOMAIN classes]_vars

\* C4 (as claimed): add_session never returns the id of a session the class has,
\* so it never overwrites an existing session record.
C4_AddNeverOverwrites ==
    [][AddReturned' => ~HasSession(last'.cid, last'.ret)]_vars

\* C4 (amended): the session id is the drawn token, unchecked.  add_session writes
\* the record of the returned id and changes no record of any other id; it returns
\* an id the class already has, and replaces that session's record, exactly when
\* the drawn token is the id of one of the class's session files.
C4_AddWritesOnlyReturnedId ==
    [][AddReturned' =>
          LET k == <<last'.cid, last'.ret>>
          IN  /\ DOMAIN session_files' = DOMAIN session_files \cup {k}
              /\ session_files'[k].session_id = last'.ret
              /\ session_files'[k].summary = None
              /\ \A q \in DOMAIN session_files \ {k} : session_files'[q] = session_files[q]
              /\ Len(returned'[last'.cid]) = Len(returned[last'.cid]) + 1]_vars

\* C4, its case: the second add_session on a class drew the id of the first
C4_TokenDrawnTwice ==
    \E c \in DOMAIN classes :
        /\ Len(returned[c]) = 2
        /\ returned[c][1] = returned[c][2]
        /\ Cardinality(SessionsOf(session_files, c)) = 1
        /\ AddReturned

\* C5: add_session on a class id that is not in the index raises "Class not found",
\* writes no session record, makes no directory and changes no index entry.
C5_MissingClassChangesNothing ==
    [][(last'.op = "add_session" /\ last'.cid \notin DOMAIN classes) =>
          /\ last'.raised = "ValueError: Class not found"
          /\ UNCHANGED <<classes, index_file, class_dirs, sessions_dirs, session_files>>]_vars

\* C5, its case: add_session was refused while the index holds other classes
C5_AddToMissingClass ==
    /\ last.op = "add_session"
    /\ last.raised = "ValueError: Class not found"
    /\ last.cid \notin DOMAIN classes
    /\ DOMAIN classes # {}

\* the fields of a session record that no update operation writes
Fixed(rec) ==
    [class_id |-> rec.class_id, session_id |-> rec.session_id, title |-> rec.title,
     content |-> rec.content, created_at |-> rec.created_at, metadata |-> rec.metadata]

\* C6 (as claimed): a session record that stays retrievable keeps its content,
\* title, created_at, class_id, session_id and metadata, whatever operation runs.
C6_ContentWriteOnce ==
    [][\A k \in DOMAIN session_files \cap DOMAIN session_files' :
          Fixed(session_files'[k]) = Fixed(session_files[k])]_vars

\* C6 (amended): update_session_summary and summarize_session change nothing of a
\* record but its summary, and no operation changes the other fields of a record
\* that stays retrievable, except an add_session that draws the id of that very
\* session (the id is not checked) and replaces the whole record.
C6_ContentChangedOnlyByRedrawnId ==
    [][\A k \in DOMAIN session_files \cap DOMAIN session_files' :
          \/ Fixed(session_files'[k]) = Fixed(session_files[k])
          \/ AddReturned' /\ k = <<last'.cid, last'.ret>>]_vars

\* C6, its case: a summary was written into an existing session record
C6_SummaryUpdated ==
    /\ last.op \in {"update_session_summary", "summarize_session"}
    /\ HasSession(last.cid, last.sid)
    /\ get_session(last.cid, last.sid).summary \in Summaries
    /\ get_session(last.cid, last.sid).content \in {"X", "Y"}

\* C7 (as claimed): every persisted session record belongs to a class that is in
\* the index, so after delete_class(c) no record of c is retrievable.
C7_RecordsBelongToIndexedClass ==
    \A k \in DOMAIN session_files : k[1] \in DOMAIN classes

\* C7 (amended): a session record is only ever created for a class that is in the
\* index.  A record whose class is not in the index is there since a delete_class
\* of that class in which the removal of its file failed: delete_class takes the
\* class from the index all the same, and the record stays retrievable.
C7_OrphansOnlyLeftByDelete ==
    [][\A k \in DOMAIN session_files' :
          \/ k[1] \in DOMAIN classes'
          \/ /\ k \in DOMAIN session_files
             /\ \/ k[1] \notin DOMAIN classes
                \/ last'.op = "delete_class" /\ last'.cid = k[1] /\ last'.ret = "True"]_vars

\* C7, its case: delete_class returned True and a record of the class is left
C7_RecordLeftByDelete ==
    /\ last.op = "delete_class"
    /\ last.ret = "True"
    /\ last.cid \notin DOMAIN classes
    /\ \E s \in Hex10 : HasSession(last.cid, s) /\ get_session(last.cid, s).class_id = last.cid

-----------------------------------------------------------------------------
(* Properties of summarize_session *)

\* the last operation was summarize_session on a session that exists
Summarized == last.op = "summarize_session" /\ HasSession(last.cid, last.sid)

\* C8: when neither request of summarize_session fails at the provider, the summary
\* stored in the session record is the string returned, whatever the insights reply.
C8_StoredSummaryIsReturned ==
    (Summarized /\ last.reply.insights # ProviderError /\ last.reply.summary # ProviderError)
        => /\ last.raised = None
           /\ last.ret = last.reply.summary
           /\ get_session(last.cid, last.sid).summary = last.ret

\* C9: whatever happens to the insights request, to the parsing of its reply and to
\* the storing of the insights, the summary request is issued, and the summary is
\* stored and returned when that request succeeds.
C9_InsightsFailureKeepsSummary ==
    Summarized
        => /\ last.requests = <<"insights", "summary">>
           /\ last.reply.summary # ProviderError
                 => /\ last.raised = None
                    /\ get_session(last.cid, last.sid).summary = last.reply.summary

\* C10: when the insights reply does not parse, no error comes of it, the session
\* record gets no insights, and the summary is requested, stored and returned.
C10_UnparsedInsightsIgnored ==
    (Summarized /\ last.reply.insights # ProviderError /\ ~JsonLoads(last.reply.insights).ok)
        => /\ last.requests = <<"insights", "summary">>
           /\ last.raised \in {None, ProviderError}
           /\ last.raised = ProviderError <=> last.reply.summary = ProviderError
           /\ "insights" \notin DOMAIN get_session(last.cid, last.sid)
           /\ last.raised = None
                 => /\ last.ret = last.reply.summary
                    /\ get_session(last.cid, last.sid).summary = last.ret

\* C10, its case: summarize_session returned after an insights reply that does not parse
C10_SummaryAfterUnparsedInsights ==
    /\ Summarized
    /\ last.reply.insights \in InsightsReplies
    /\ ~JsonLoads(last.reply.insights).ok
    /\ last.raised = None
    /\ last.ret \in Summaries
    /\ get_session(last.cid, last.sid).summary = last.ret

\* C11: when the insights reply of summarize_session parses to a non-empty object,
\* that object is persisted: afterwards get_session(c, s) is a record whose insights
\* field is the parsed object.
C11_ParsedInsightsPersisted ==
    (/\ Summarized
     /\ last.reply.insights \in InsightsReplies
     /\ ParsedInsights(last.reply.insights) # {})
        => /\ "insights" \in DOMAIN get_session(last.cid, last.sid)
           /\ get_session(last.cid, last.sid).insights = ParsedInsights(last.reply.insights)

-----------------------------------------------------------------------------
(* list_sessions and get_class *)

\* one more value uuid.uuid4().hex[:10] can take
Hex10More == Hex10 \cup {"9a8b7c6d5e"}

\* the names of the session files in the order sorted() puts them
NameOrder == <<"5d0c1a9e3b", "9a8b7c6d5e", "e42f7706aa">>

\* sorted(os.listdir(sdir)) for a directory that holds the files of the ids in S
SortedNames(S) == SelectSeq(NameOrder, LAMBDA n : n \in S)

\* o.get("created_at") or ""
CreatedKey(o) == IF "created_at" \in DOMAIN o THEN o.created_at ELSE NoTime

\* out.sort(key=created_at) without reverse=True: oldest first, equal keys in the
\* order they had
RECURSIVE SortOldestFirst(_)
SortOldestFirst(out) ==
    IF out = <<>> THEN <<>>
    ELSE LET x == out[Len(out)]
             sorted == SortOldestFirst(SubSeq(out, 1, Len(out) - 1))
             k == Cardinality({ i \in 1..Len(sorted) : CreatedKey(sorted[i]) <= CreatedKey(x) })
         IN  SubSeq(sorted, 1, k) \o <<x>> \o SubSeq(sorted, k + 1, Len(sorted))

\* out.sort(key=created_at, reverse=True): newest first, and the sort is stable, so
\* records of equal key keep the order they had
RECURSIVE SortNewestFirst(_)
SortNewestFirst(out) ==
    IF out = <<>> THEN <<>>
    ELSE LET x == out[Len(out)]
             sorted == SortNewestFirst(SubSeq(out, 1, Len(out) - 1))
             k == Cardinality({ i \in 1..Len(sorted) : CreatedKey(sorted[i]) >= CreatedKey(x) })
         IN  SubSeq(sorted, 1, k) \o <<x>> \o SubSeq(sorted, k + 1, Len(sorted))

\* list_sessions: the payloads of the session files of class c (every file in the
\* directory was written by json.dump and is named <id>.json), newest first
list_sessions(c) ==
    IF c \notin sessions_dirs THEN <<>>
    ELSE LET names == SortedNames(SessionsOf(session_files, c))
         IN  SortNewestFirst([i \in 1..Len(names) |-> session_files[<<c, names[i]>>]])

\* whether self.classes.get(class_id) finds a record
InIndex(c) == c \in DOMAIN classes

\* get_class: the index record of class c with its sessions listed in it, or None
get_class(c) ==
    IF ~InIndex(c) THEN None
    ELSE [k \in DOMAIN classes[c] \cup {"sessions"} |->
             IF k = "sessions" THEN list_sessions(c) ELSE classes[c][k]]

\* a call of get_class: the store is read and left as it is
get_class_call(c) ==
    /\ Quiet
    /\ last' = Call("get_class", c, None, None, get_class(c))
    /\ UNCHANGED <<store, now, ops, returned>>

-----------------------------------------------------------------------------
(* The sessions of one class: the store after one create_class, then add_session, *)
(* update_session_summary and get_class on it                                     *)

SeedInput == [name |-> <<"A">>, code |-> None, color |-> None]

SeedId == _generate_class_id(SeedInput.name, "0f3a2c")

\* the state create_class(SeedInput) leaves when the token drawn is 0f3a2c
InitSessions ==
    /\ classes = WithClass(<<>>, SeedId, ClassObj(SeedInput, SeedId, 1))
    /\ index_file = classes
    /\ class_dirs = {SeedId}
    /\ sessions_dirs = {SeedId}
    /\ session_files = <<>>
    /\ now = 1
    /\ ops = 0
    /\ returned = [c \in ClassIds |-> <<>>]
    /\ last = Call("create_class", SeedId, None, None, SeedId)
    /\ QuietInit

NextSessions ==
    \/ \E c \in ClassArgs, inp \in SessionInputs, tok \in Hex10More, t \in {now, now + 1} :
           add_session(c, inp, tok, t)
    \/ \E c \in ClassArgs, summary \in Summaries :
           \E s \in SessionArgs(c) : update_session_summary(c, s, summary)
    \/ \E c \in ClassArgs : get_class_call(c)

SpecSessions == InitSessions /\ [][NextSessions]_vars

\* the ids of the records of a listing, in its order
IdsOf(listing) == [i \in 1..Len(listing) |-> listing[i].session_id]

\* C12: the sessions get_class returns are sorted by created_at, newest first, and
\* hold every persisted session of the class exactly once; for a class whose three
\* sessions S1, S2, S3 were added in this order at strictly increasing times they
\* are S3, S2, S1.
C12_SessionsNewestFirst ==
    \A c \in DOMAIN classes :
        LET listing == get_class(c).sessions
            r == returned[c]
        IN  /\ \A i, j \in 1..Len(listing) :
                  i < j => listing[i].created_at >= listing[j].created_at
            /\ Len(listing) = Cardinality(SessionsOf(session_files, c))
            /\ \A s \in SessionsOf(session_files, c) :
                  \E i \in 1..Len(listing) : listing[i] = get_session(c, s)
            /\ (/\ Len(r) = 3
                /\ Cardinality(ReturnedIds(c)) = 3
                /\ get_session(c, r[1]).created_at < get_session(c, r[2]).created_at
                /\ get_session(c, r[2]).created_at < get_session(c, r[3]).created_at)
                  => IdsOf(listing) = <<r[3], r[2], r[1]>>

\* C12, its case: get_class was called on a class to which three sessions had been
\* added at strictly increasing times, and returned them last added first
C12_ThreeSessionsListed ==
    /\ last.op = "get_class"
    /\ InIndex(last.cid)
    /\ Len(returned[last.cid]) = 3
    /\ Cardinality(ReturnedIds(last.cid)) = 3
    /\ [i \in 1..3 |-> get_session(last.cid, returned[last.cid][i]).created_at] = <<1, 2, 3>>
    /\ IdsOf(last.ret.sessions) =
           <<returned[last.cid][3], returned[last.cid][2], returned[last.cid][1]>>

-----------------------------------------------------------------------------
(* The provider's answer to a chat request (ai_agent.py) *)

\* what the provider has for a request: the deltas of the chunks it streams
\* (delta.reasoning_content and delta.content, each possibly None)
Completions ==
    { << [reasoning |-> None, content |-> None], [reasoning |-> "", content |-> "An"],
         [reasoning |-> None, content |-> ""], [reasoning |-> None, content |-> "swer"] >>,
      << [reasoning |-> "Hm. ", content |-> None], [reasoning |-> None, content |-> "Answer"] >> }

\* what a request gets: a completion, or the error the provider call raises
Answers == { [error |-> FALSE, chunks |-> k] : k \in Completions }
               \cup { [error |-> TRUE, chunks |-> <<>>] }

\* no request was sent
NotAsked == [error |-> FALSE, chunks |-> <<>>]

\* Python's truth of a string or None
Truthy(x) == x # None /\ x # ""

\* the content of a chunk yielded before its reasoning
ChunkFragments_content_first(chunk) ==
    (IF chunk.content # None THEN <<chunk.content>> ELSE <<>>)
        \o (IF Truthy(chunk.reasoning) THEN <<chunk.reasoning>> ELSE <<>>)

\* lines 114-119: what chat(stream=True) yields for one chunk
ChunkFragments(chunk) ==
    (IF Truthy(chunk.reasoning) THEN <<chunk.reasoning>> ELSE <<>>)
        \o (IF chunk.content # None THEN <<chunk.content>> ELSE <<>>)

\* chat(stream=True): the fragments the generator yields, in order
RECURSIVE chat(_)
chat(completion) ==
    IF completion = <<>> THEN <<>>
    ELSE ChunkFragments(Head(completion)) \o chat(Tail(completion))

\* message.content of the same completion when it is not streamed: the content
\* deltas accumulated (the reasoning text is in message.reasoning_content)
RECURSIVE MessageContent(_)
MessageContent(completion) ==
    IF completion = <<>> THEN ""
    ELSE (IF Head(completion).content # None THEN Head(completion).content ELSE "")
             \o MessageContent(Tail(completion))

\* chat_non_stream: return completion.choices[0].message.content
chat_non_stream(completion) == MessageContent(completion)

\* "".join(fragments): what a caller has after the generator is exhausted
Concatenated(fragments) == Join(fragments)

-----------------------------------------------------------------------------
(* ask_question and ask_across_classes (class_agent.py) *)

\* A text built by f-strings is the sequence of its literal and interpolated parts.

RECURSIVE Flatten(_)
Flatten(seqs) == IF seqs = <<>> THEN <<>> ELSE Head(seqs) \o Flatten(Tail(seqs))

\* the block of a session with the summary standing in for the transcript when
\* there is one
SessionBlock_summary_for_transcript(s) ==
    <<"--- ", s.title, " (ID: ", s.session_id, ") ---\n">>
        \o (IF Truthy(s.summary)
            THEN <<"Summary: ", s.summary, "\n">>
            ELSE <<"Transcript: ", s.content, "\n\n">>)

\* lines 183-186: the block of one session in the context of ask_question
SessionBlock(s) ==
    <<"--- ", s.title, " (ID: ", s.session_id, ") ---\n">>
        \o (IF Truthy(s.summary) THEN <<"Summary: ", s.summary, "\n">> ELSE <<>>)
        \o <<"Transcript: ", s.content, "\n\n">>

\* lines 181-186: the context of ask_question
ClassContext(cinfo, class_id) ==
    <<"Class: ", Or(Join(cinfo.name), class_id), "\n\n">>
        \o Flatten([i \in 1..Len(cinfo.sessions) |-> SessionBlock(cinfo.sessions[i])])

\* lines 235-238: the lines of one session in the context of ask_across_classes
AcrossSessionBlock(s) ==
    <<"- Session: ", s.title, " (ID: ", s.session_id, ")\n">>
        \o (IF Truthy(s.summary) THEN <<"  Summary: ", s.summary, "\n">> ELSE <<>>)
        \o <<"  Transcript: ", s.content, "\n">>

\* lines 233-239: the block of one class
AcrossClassBlock(cinfo) ==
    <<"### Class: ", Join(cinfo.name), " (ID: ", cinfo.class_id, ")\n">>
        \o Flatten([i \in 1..Len(cinfo.sessions) |-> AcrossSessionBlock(cinfo.sessions[i])])
        \o <<"\n">>

\* lines 231-239: the context of ask_across_classes over the classes of the ids in
\* searched, in that order
AcrossContext(searched) ==
    <<"Available Class Information:\n\n">>
        \o Flatten([i \in 1..Len(searched) |-> AcrossClassBlock(get_class(searched[i]))])

\* the record of a call of ask_question or ask_across_classes
Asked(op, cid, class_ids, question, stream, searched, context, o) ==
    [op |-> op, cid |-> cid, sid |-> None, raised |-> o.raised, ret |-> o.ret,
     requests |-> o.requests, reply |-> o.reply,
     class_ids |-> class_ids, question |-> question, stream |-> stream,
     searched |-> searched, context |-> context,
     at |-> o.at, fragments |-> o.fragments]

\* ask_question as a generator function ("yield from self.agent.chat(...)"): its
\* checks run when the first fragment is pulled
Refused_at_first_pull(error) ==
    [raised |-> error, at |-> "pull", ret |-> None, fragments |-> <<>>,
     requests |-> <<>>, reply |-> NotAsked]

\* the call raises ValueError before anything is sent
Refused(error) ==
    [raised |-> error, at |-> "call", ret |-> None, fragments |-> <<>>,
     requests |-> <<>>, reply |-> NotAsked]

\* lines 199-202: return self.agent.chat(messages) or self.agent.chat_non_stream(messages).
\* chat is a generator: the request is sent when the caller pulls the first fragment,
\* and the caller goes on to exhaust it.  chat_non_stream sends it in the call.
Answered(stream, answer) ==
    IF answer.error
    THEN [raised |-> ProviderError, at |-> IF stream THEN "pull" ELSE "call",
          ret |-> None, fragments |-> <<>>, requests |-> <<"answer">>, reply |-> answer]
    ELSE IF stream
    THEN [raised |-> None, at |-> None, ret |-> "<generator>",
          fragments |-> chat(answer.chunks), requests |-> <<"answer">>, reply |-> answer]
    ELSE [raised |-> None, at |-> None, ret |-> chat_non_stream(answer.chunks),
          fragments |-> <<>>, requests |-> <<"answer">>, reply |-> answer]

ask_question(c, question, stream, answer) ==
    /\ Step
    /\ Quiet
    /\ last' =
          IF ~InIndex(c)
          THEN Asked("ask_question", c, None, question, stream, <<>>, <<>>,
                     Refused("ValueError: Class not found"))
          ELSE IF get_class(c).sessions = <<>>
          THEN Asked("ask_question", c, None, question, stream, <<>>, <<>>,
                     Refused("ValueError: No sessions found for this class"))
          ELSE Asked("ask_question", c, None, question, stream, <<c>>,
                     ClassContext(get_class(c), c), Answered(stream, answer))
    /\ UNCHANGED <<store, now, returned>>

\* class_ids as given by the caller: None, or a list
Unspecified == [given |-> FALSE, ids |-> <<>>]

\* the arrangements of the elements of S in a sequence
Orderings(S) ==
    { q \in [1..Cardinality(S) -> S] : \A i, j \in 1..Cardinality(S) : i # j => q[i] # q[j] }

\* lines 216-225: classes_to_search, as the ids of its classes.  listed: the ids of
\* list_classes(), in the order the index keeps them
Resolved(class_ids, listed) ==
    IF class_ids.given /\ class_ids.ids # <<>>
    THEN SelectSeq(class_ids.ids, InIndex)
    ELSE listed

\* ask_across_classes without lines 227-228: an empty classes_to_search is asked about
ask_across_classes_unchecked(question, class_ids, listed, stream, answer) ==
    LET searched == Resolved(class_ids, listed)
    IN  /\ Step
        /\ Quiet
        /\ last' = Asked("ask_across_classes", None, class_ids, question, stream, searched,
                         AcrossContext(searched), Answered(stream, answer))
        /\ UNCHANGED <<store, now, returned>>

ask_across_classes(question, class_ids, listed, stream, answer) ==
    LET searched == Resolved(class_ids, listed)
    IN  /\ Step
        /\ Quiet
        /\ last' =
              IF searched = <<>>
              THEN Asked("ask_across_classes", None, class_ids, question, stream, searched, <<>>,
                         Refused("ValueError: No classes found to search"))
              ELSE Asked("ask_across_classes", None, class_ids, question, stream, searched,
                         AcrossContext(searched), Answered(stream, answer))
        /\ UNCHANGED <<store, now, returned>>

-----------------------------------------------------------------------------------------------------------------------------------------------------
(* Questions over the store.  The store is empty, or as one create_class left it, *)
(* or as one add_session after that left it; then come create_class, add_session, *)
(* update_session_summary and the two questions.                                  *)

Questions == {"Why?"}

\* the state add_session(SeedId, "Lecture", "X") leaves in the store of InitSessions
\* when the token drawn is 5d0c1a9e3b and the clock reads 2
InitOneSession ==
    LET inp == [title |-> "Lecture", content |-> "X", metadata |-> [given |-> FALSE, val |-> {}]]
        payload == Payload(SeedId, "5d0c1a9e3b", inp, 2)
    IN  /\ classes = WithClass(<<>>, SeedId, Counted(ClassObj(SeedInput, SeedId, 1), 2))
        /\ index_file = classes
        /\ class_dirs = {SeedId}
        /\ sessions_dirs = {SeedId}
        /\ session_files = WriteFile(<<>>, SeedId, "5d0c1a9e3b", payload)
        /\ now = 2
        /\ ops = 0
        /\ returned = [c \in ClassIds |-> IF c = SeedId THEN <<"5d0c1a9e3b">> ELSE <<>>]
        /\ last = Call("add_session", SeedId, "5d0c1a9e3b", None, "5d0c1a9e3b")
        /\ QuietInit

InitAsk == Init \/ InitSessions \/ InitOneSession

\* the lists of class ids a caller passes: the empty list, one id, two ids
ClassIdLists ==
    {<<>>} \cup { <<c>> : c \in ClassArgs }
           \cup { l \in ClassArgs \X ClassArgs : InIndex(l[1]) /\ l[2] # l[1] }

NextAsk ==
    \/ \E inp \in {[name |-> <<>>, code |-> None, color |-> None]}, hex \in {"b71e09"},
          t \in {now, now + 1} : create_class(inp, hex, t)
    \/ \E c \in ClassArgs, inp \in SessionInputs, tok \in Hex10, t \in {now, now + 1} :
           add_session(c, inp, tok, t)
    \/ \E c \in ClassArgs, summary \in {"S1", ""} :
           \E s \in SessionArgs(c) : update_session_summary(c, s, summary)
    \/ \E c \in ClassArgs, question \in Questions, stream \in BOOLEAN, answer \in Answers :
           ask_question(c, question, stream, answer)
    \/ \E question \in Questions, stream \in BOOLEAN, answer \in Answers,
          listed \in Orderings(DOMAIN classes) :
           \E class_ids \in {Unspecified} \cup { [given |-> TRUE, ids |-> l] : l \in ClassIdLists } :
               ask_across_classes(question, class_ids, listed, stream, answer)

SpecAsk == InitAsk /\ [][NextAsk]_vars

-----------------------------------------------------------------------------
(* Properties of ask_question and ask_across_classes *)

\* C13: for the same question, store and provider answer, the fragments yielded by
\* ask_question(stream=True), concatenated in order, are the string
\* ask_question(stream=False) returns, reasoning text in the answer or not.
C13_StreamedIsBuffered ==
    (last.op = "ask_question" /\ last.raised = None /\ last.stream)
        => Concatenated(last.fragments) = chat_non_stream(last.reply.chunks)

\* the ids of a list of class ids
ListedIds(ids) == { ids[i] : i \in 1..Len(ids) }

\* C14: ask_across_classes raises "No classes found to search" and sends no request
\* whenever the classes it resolves are none: class_ids was not given and the store
\* has no class, or the ids given are all unknown.
C14_NoClassNothingAsked ==
    last.op = "ask_across_classes"
        => LET given == last.class_ids.given
               ids == last.class_ids.ids
               refused == /\ last.raised = "ValueError: No classes found to search"
                          /\ last.at = "call"
                          /\ last.requests = <<>>
           IN  /\ (~given /\ DOMAIN classes = {}) => refused
               /\ (given /\ ids # <<>> /\ \A c \in ListedIds(ids) : ~InIndex(c)) => refused
               /\ last.searched = <<>> => refused

\* C14, its case: a store with a class in it was asked about ids it does not know
C14_OnlyUnknownIdsGiven ==
    /\ last.op = "ask_across_classes"
    /\ DOMAIN classes # {}
    /\ last.class_ids.given
    /\ last.class_ids.ids = <<"nonexistent">>
    /\ last.raised = "ValueError: No classes found to search"
    /\ last.requests = <<>>

\* C15: ask_across_classes over classes that together hold no session raises a
\* "nothing to search" error and sends no request, as ask_question does for a class
\* without sessions.
C15_NoSessionNothingAsked ==
    (/\ last.op = "ask_across_classes"
     /\ \A c \in ListedIds(last.searched) : get_class(c).sessions = <<>>)
        => /\ last.raised \in { "ValueError: No classes found to search",
                                "ValueError: No sessions found for this class" }
           /\ last.requests = <<>>

\* C16: ask_question raises and sends no request when the class is not in the index
\* or has no sessions, and it raises in the call itself, streaming or not, not when
\* the first fragment is pulled.
C16_AskRefusedInTheCall ==
    last.op = "ask_question"
        => /\ ~InIndex(last.cid)
                 => last.raised = "ValueError: Class not found"
           /\ (InIndex(last.cid) /\ get_class(last.cid).sessions = <<>>)
                 => last.raised = "ValueError: No sessions found for this class"
           /\ (~InIndex(last.cid) \/ get_class(last.cid).sessions = <<>>)
                 => /\ last.at = "call"
                    /\ last.requests = <<>>
                    /\ last.fragments = <<>>

\* C16, its case: a streamed question about a class that has no sessions
C16_StreamedAskOfEmptyClass ==
    /\ last.op = "ask_question"
    /\ last.stream
    /\ InIndex(last.cid)
    /\ get_class(last.cid).sessions = <<>>
    /\ last.raised = "ValueError: No sessions found for this class"
    /\ last.at = "call"

\* the parts of a text that come right after the literal part marker, in order
RECURSIVE After(_, _)
After(text, marker) ==
    IF Len(text) < 2 THEN <<>>
    ELSE (IF Head(text) = marker THEN <<text[2]>> ELSE <<>>) \o After(Tail(text), marker)

\* how many of the first n parts of a text are the literal part marker
Count(text, marker, n) == Cardinality({ i \in 1..n : text[i] = marker })

\* C17: the context ask_question sends has one block for each persisted session of
\* the class, in the newest-first order of the store; the block holds the whole
\* content of the session, and before it the summary exactly when the session has
\* one (a string that is not empty).
C17_ContextHoldsEverySession ==
    (last.op = "ask_question" /\ last.requests # <<>>)
        => LET text == last.context
               listing == list_sessions(last.cid)
               n == Len(listing)
           IN  /\ n = Cardinality(SessionsOf(session_files, last.cid))
               /\ After(text, "--- ") = [i \in 1..n |-> listing[i].title]
               /\ After(text, " (ID: ") = IdsOf(listing)
               /\ After(text, "Transcript: ") = [i \in 1..n |-> listing[i].content]
               /\ \A i \in 1..Len(text) :
                     text[i] = "Transcript: "
                        => LET k == Count(text, "Transcript: ", i)
                               s == listing[k]
                               summarized == s.summary # None /\ s.summary # ""
                           IN  /\ text[i + 1] = s.content
                               /\ summarized
                                     => /\ text[i - 3] = "Summary: "
                                        /\ text[i - 2] = s.summary
                                        /\ text[i - 5] = s.session_id
                               /\ ~summarized
                                     => /\ text[i - 1] = ") ---\n"
                                        /\ text[i - 2] = s.session_id
               /\ Count(text, "Summary: ", Len(text))
                     = Cardinality({ i \in 1..n : listing[i].summary \notin {None, ""} })

\* C17, its case: a question about a class of two sessions, of contents X and Y, one
\* of them with a summary: both contents are in the context
C17_TwoSessionsInContext ==
    /\ last.op = "ask_question"
    /\ last.requests # <<>>
    /\ Len(list_sessions(last.cid)) = 2
    /\ After(last.context, "Transcript: ") \in { <<"X", "Y">>, <<"Y", "X">> }
    /\ After(last.context, "Summary: ") = <<"S1">>

\* the ids of the classes that have a block in a context of ask_across_classes
ClassesIn(text) == { text[i + 3] : i \in { j \in 1..Len(text) : text[j] = "### Class: " } }

\* C18: given a list of class ids, the empty list included, ask_across_classes builds
\* its context from the classes of these ids only, the unknown ones skipped; it takes
\* all the classes of the store only when no list is given.
C18_OnlyListedClassesSearched ==
    last.op = "ask_across_classes"
        => /\ last.class_ids.given
                 => /\ ClassesIn(last.context) \subseteq ListedIds(last.class_ids.ids)
                    /\ last.searched = SelectSeq(last.class_ids.ids, InIndex)
           /\ (~last.class_ids.given /\ last.requests # <<>>)
                 => ClassesIn(last.context) = DOMAIN classes

-----------------------------------------------------------------------------
(* Properties of delete_class and update_session_summary *)

\* C19: delete_class(c) returns True exactly when c was in the index.  When it
\* returns False, the index and the files are as they were.  When it returns True, c
\* is not among the classes listed, get_class(c) finds nothing, and the index entries
\* and the session records of every other class are as they were.
C19_DeleteRemovesOneClass ==
    [][ (last'.op = "delete_class" /\ ops' = ops + 1)
          => LET c == last'.cid
             IN  /\ last'.ret = "True" <=> c \in DOMAIN classes
                 /\ last'.ret = "False" <=> c \notin DOMAIN classes
                 /\ last'.ret = "False" => UNCHANGED store
                 /\ last'.ret = "True"
                       => /\ c \notin DOMAIN classes'
                          /\ \A d \in DOMAIN classes' : classes'[d].class_id # c
                          /\ DOMAIN classes' = DOMAIN classes \ {c}
                          /\ \A d \in DOMAIN classes \ {c} :
                                /\ classes'[d] = classes[d]
                                /\ index_file'[d] = index_file[d]
                          /\ { k \in DOMAIN session_files' : k[1] # c }
                                = { k \in DOMAIN session_files : k[1] # c }
                          /\ \A k \in DOMAIN session_files :
                                k[1] # c => session_files'[k] = session_files[k]
      ]_vars

\* C19, its case: delete_class returned True and another class is still in the index
C19_OneOfTwoClassesDeleted ==
    /\ last.op = "delete_class"
    /\ last.ret = "True"
    /\ last.cid \notin DOMAIN classes
    /\ DOMAIN classes # {}

\* C20: update_session_summary is idempotent.  On a session that exists it leaves the
\* summary equal to the value given; called again with the same value, it leaves the
\* whole record, and every file, as the first call left them.
C20_SecondUpdateChangesNothing ==
    [][ (/\ last'.op = "update_session_summary"
         /\ ops' = ops + 1
         /\ HasSession(last'.cid, last'.sid))
          => /\ session_files'[<<last'.cid, last'.sid>>].summary = last'.summary
             /\ last'.again
                   => /\ session_files'[<<last'.cid, last'.sid>>]
                             = session_files[<<last'.cid, last'.sid>>]
                      /\ UNCHANGED store
      ]_vars

\* C20, its case: update_session_summary was called twice in a row on a session that
\* exists, with the same value
C20_UpdatedTwice ==
    /\ last.op = "update_session_summary"
    /\ last.again
    /\ HasSession(last.cid, last.sid)
    /\ get_session(last.cid, last.sid).summary = last.summary

\* C21: update_session_summary for a class id and session id of which no record is
\* persisted does nothing and says nothing: it raises nothing, no record is made, and
\* the index and every session record are as they were.
C21_UpdateOfMissingSessionIsNoOp ==
    [][ (/\ last'.op = "update_session_summary"
         /\ ops' = ops + 1
         /\ ~HasSession(last'.cid, last'.sid))
          => /\ last'.raised = None
             /\ <<last'.cid, last'.sid>> \notin DOMAIN session_files'
             /\ session_files' = session_files
             /\ classes' = classes
             /\ index_file' = index_file
             /\ UNCHANGED store
      ]_vars

\* C21, its case: update_session_summary was called for a session id that has no
\* record, in a class that has other records
C21_MissingSessionUpdated ==
    /\ last.op = "update_session_summary"
    /\ InIndex(last.cid)
    /\ ~HasSession(last.cid, last.sid)
    /\ SessionsOf(session_files, last.cid) # {}
    /\ last.raised = None

-----------------------------------------------------------------------------
(* Empty and whitespace-only arguments: create_class, add_session and the two *)
(* questions called with them, and with arguments that are not                 *)

\* names, contents and questions that are empty or all whitespace, and one that is not
NameArgs == { <<>>, <<" ">>, <<"A">> }

TextArgs == { "", " ", "X" }

\* whether name.strip() is empty
BlankName(name) == \A i \in 1..Len(name) : name[i] = " "

\* whether text.strip() is empty, for the texts of TextArgs
BlankText(text) == text \in {"", " "}

NextBlank ==
    \/ \E name \in NameArgs, hex \in Hex6, t \in {now, now + 1} :
           create_class([name |-> name, code |-> None, color |-> None], hex, t)
    \/ \E c \in ClassArgs, content \in TextArgs, tok \in Hex10, t \in {now, now + 1} :
           add_session(c, [title |-> "Lecture", content |-> content,
                           metadata |-> [given |-> FALSE, val |-> {}]], tok, t)
    \/ \E c \in ClassArgs, question \in TextArgs, stream \in BOOLEAN, answer \in Answers :
           ask_question(c, question, stream, answer)
    \/ \E question \in TextArgs, stream \in BOOLEAN, answer \in Answers,
          listed \in Orderings(DOMAIN classes) :
           ask_across_classes(question, Unspecified, listed, stream, answer)

SpecBlank == Init /\ [][NextBlank]_vars

\* C22: an empty or whitespace-only name given to create_class, content given to
\* add_session, or question given to ask_question or ask_across_classes is rejected
\* before any file is written and before any request is sent.
C22_BlankInputRejected ==
    /\ \A c \in DOMAIN classes : ~BlankName(classes[c].name)
    /\ \A k \in DOMAIN session_files : ~BlankText(session_files[k].content)
    /\ (last.op \in {"ask_question", "ask_across_classes"} /\ BlankText(last.question))
          => last.raised # None /\ last.requests = <<>>

-----------------------------------------------------------------------------
(* add_class_session (class_agent.py): add_session, then summarize_session *)

\* the record of a call of add_class_session; sid is the id add_session drew
Uploaded(c, sid, auto_summarize, o, insights_reply, summary_reply) ==
    [op |-> "add_class_session", cid |-> c, sid |-> sid, raised |-> o.raised, ret |-> o.ret,
     requests |-> o.requests,
     reply |-> [insights |-> insights_reply, summary |-> summary_reply],
     auto_summarize |-> auto_summarize]

\* nothing of summarize_session happened
NotSummarized == [raised |-> None, ret |-> None, requests |-> <<>>, stores |-> FALSE]

\* add_class_session undoing its add_session when summarize_session raises
add_class_session_rolled_back(c, transcript, session_title, auto_summarize, tok, t, insights_reply, summary_reply) ==
    /\ Step
    /\ Quiet
    /\ IF ~InIndex(c)
       THEN /\ last' = Uploaded(c, None, auto_summarize,
                                [NotSummarized EXCEPT !.raised = "ValueError: Class not found"],
                                None, None)
            /\ UNCHANGED <<store, now, returned>>
       ELSE LET inp == [title |-> Or(session_title, "Lecture"), content |-> transcript,
                        metadata |-> [given |-> FALSE, val |-> {}]]
                payload == Payload(c, tok, inp, t)
                added == WriteFile(session_files, c, tok, payload)
                o == IF auto_summarize
                     THEN SummarizeOutcome(TRUE, insights_reply, summary_reply)
                     ELSE NotSummarized
                failed == o.raised # None
            IN  /\ Clock(t)
                /\ _ensure_class_dirs(c)
                /\ session_files' = IF failed THEN session_files
                                    ELSE IF o.stores THEN SummaryWritten(added, c, tok, o.ret)
                                    ELSE added
                /\ classes' = IF failed THEN classes
                              ELSE WithClass(classes, c, Counted(classes[c], payload.created_at))
                /\ index_file' = classes'
                /\ returned' = IF failed THEN returned
                               ELSE [returned EXCEPT ![c] = Append(@, tok)]
                /\ last' = Uploaded(c, tok, auto_summarize, o,
                                    IF auto_summarize THEN insights_reply ELSE None,
                                    IF auto_summarize /\ "summary" \in Range(o.requests)
                                    THEN summary_reply ELSE None)

\* lines 46-57: session = add_session(class_id, session_title or "Lecture", transcript,
\* None); if auto_summarize: session["summary"] = summarize_session(class_id,
\* session["session_id"]); return session.  Nothing is caught.
ClassSessionAdded(c, transcript, session_title, auto_summarize, tok, t, insights_reply, summary_reply) ==
    /\ Step
    /\ IF ~InIndex(c)
       THEN /\ last' = Uploaded(c, None, auto_summarize,
                                [NotSummarized EXCEPT !.raised = "ValueError: Class not found"],
                                None, None)
            /\ UNCHANGED <<store, now, returned>>
       ELSE LET inp == [title |-> Or(session_title, "Lecture"), content |-> transcript,
                        metadata |-> [given |-> FALSE, val |-> {}]]
                payload == Payload(c, tok, inp, t)
                added == WriteFile(session_files, c, tok, payload)
                o == IF auto_summarize
                     THEN SummarizeOutcome(TRUE, insights_reply, summary_reply)
                     ELSE NotSummarized
            IN  /\ Clock(t)
                /\ _ensure_class_dirs(c)
                /\ session_files' = IF o.stores THEN SummaryWritten(added, c, tok, o.ret)
                                    ELSE added
                /\ classes' = WithClass(classes, c, Counted(classes[c], payload.created_at))
                /\ index_file' = classes'
                /\ returned' = [returned EXCEPT ![c] = Append(@, tok)]
                /\ last' = Uploaded(c, tok, auto_summarize, o,
                                    IF auto_summarize THEN insights_reply ELSE None,
                                    IF auto_summarize /\ "summary" \in Range(o.requests)
                                    THEN summary_reply ELSE None)

\* add_class_session called on the ClassAIAgent: the settings, the environment and the
\* model client are not touched
add_class_session(c, transcript, session_title, auto_summarize, tok, t, insights_reply, summary_reply) ==
    /\ Quiet
    /\ ClassSessionAdded(c, transcript, session_title, auto_summarize, tok, t, insights_reply, summary_reply)

NextUpload ==
    \/ \E inp \in {SeedInput}, hex \in Hex6, t \in {now, now + 1} : create_class(inp, hex, t)
    \/ \E c \in ClassArgs, transcript \in {"X"}, session_title \in {None, "Week 1"},
          auto_summarize \in BOOLEAN, tok \in Hex10, t \in {now, now + 1},
          insights_reply \in InsightsReplies \cup {ProviderError},
          summary_reply \in {"S1", ProviderError} :
           add_class_session(c, transcript, session_title, auto_summarize, tok, t,
                             insights_reply, summary_reply)

SpecUpload == Init /\ [][NextUpload]_vars

\* C29: when summarize_session raises inside add_class_session(auto_summarize=True),
\* the error reaches the caller, and nothing is undone: the session record stays
\* persisted, with its content and no summary, and sessions_count stays incremented.
C29_FailedSummaryKeepsSession ==
    [][ (/\ last'.op = "add_class_session"
         /\ ops' = ops + 1
         /\ InIndex(last'.cid)
         /\ last'.auto_summarize
         /\ \/ last'.reply.insights = ProviderError
            \/ ParsedInsights(last'.reply.insights) # {}
            \/ last'.reply.summary = ProviderError)
          => LET c == last'.cid
                 s == last'.sid
             IN  /\ last'.raised \in {ProviderError, "AttributeError: update_session_insights"}
                 /\ last'.ret = None
                 /\ <<c, s>> \in DOMAIN session_files'
                 /\ session_files'[<<c, s>>].summary = None
                 /\ session_files'[<<c, s>>].session_id = s
                 /\ classes'[c].sessions_count = classes[c].sessions_count + 1
                 /\ index_file'[c].sessions_count = classes[c].sessions_count + 1
      ]_vars

\* C29, its case: the summary request failed at the provider, and the session added
\* before it is in the store, without a summary, and counted
C29_SessionKeptAfterFailedSummary ==
    /\ last.op = "add_class_session"
    /\ last.auto_summarize
    /\ last.raised = ProviderError
    /\ last.requests = <<"insights", "summary">>
    /\ HasSession(last.cid, last.sid)
    /\ get_session(last.cid, last.sid).summary = None
    /\ classes[last.cid].sessions_count = 1

-----------------------------------------------------------------------------
(* One SettingsManager: the calls of settings_mgr *)

\* settings.json when the manager is constructed
SettingsFiles ==
    { File("absent", NoSettings), File("unreadable", NoSettings),
      File("json", "asr_mode" :> "free"),
      File("json", ("asr_mode" :> "fast") @@ ("llm_provider" :> "nvidia")) }

\* the updates given to update_settings
Updates ==
    { NoSettings, "asr_mode" :> "fast", "llm_provider" :> "nvidia",
      ("asr_mode" :> "free") @@ ("llm_provider" :> "groq") }

InitSettings ==
    /\ classes = <<>>
    /\ index_file = <<>>
    /\ class_dirs = {}
    /\ sessions_dirs = {}
    /\ session_files = <<>>
    /\ now = 1
    /\ ops = 0
    /\ returned = [c \in ClassIds |-> <<>>]
    /\ last = Call("init", None, None, None, None)
    /\ environ = [LLM_PROVIDER |-> None, ASR_MODE |-> None, OPENAI_MODEL |-> None,
                  NVIDIA_API_KEY |-> TRUE, GROQ_API_KEY |-> FALSE, OPENAI_API_KEY |-> FALSE]
    /\ agent = [WithClient(NoAgent(TRUE), Configured(environ, TRUE)) EXCEPT !.constructed = TRUE]
    /\ \E file \in SettingsFiles : Constructed(file)
    /\ NotRunning

NextSettings ==
    \/ \E updates \in Updates : update_settings(updates)
    \/ \E key \in {"asr_mode"}, value \in {"free", "fast"} : set(key, value)
    \/ \E key \in {"llm_provider"}, value \in {"groq"} : set(key, value)
    \/ get_settings

SpecSettings == InitSettings /\ [][NextSettings]_vars

\* the indices of the updates in the log that name key k
Naming(k) == { i \in 1..Len(settings_log.writes) : k \in DOMAIN settings_log.writes[i] }

\* the greatest of a non-empty set of numbers
Latest(S) == CHOOSE i \in S : \A j \in S : j <= i

\* the loaded map overridden by the logged updates: per key the last update naming it,
\* and the loaded value for a key no update names
Overridden ==
    [k \in DOMAIN settings_log.loaded \cup { k \in {"asr_mode", "llm_provider"} : Naming(k) # {} } |->
        IF Naming(k) # {} THEN settings_log.writes[Latest(Naming(k))][k]
        ELSE settings_log.loaded[k]]

\* C25: after any sequence of update_settings and set calls on one SettingsManager,
\* its map is the loaded map overridden by the updates in call order (the last write
\* of a key wins, a key no update names keeps its loaded value); get_settings and
\* update_settings return that whole map, and once something was written the file
\* holds the same map
C25_SettingsAreLoadedThenOverridden ==
    /\ settings_mgr = Overridden
    /\ last.op \in {"get_settings", "update_settings"} => last.ret = Overridden
    /\ settings_log.writes # <<>> => settings_file = File("json", Overridden)

\* C25 witness: get_settings after two updates that gave asr_mode two values, with
\* the loaded llm_provider named by no update and still in the map
C25_TwiceWrittenKeyAndUntouchedKey ==
    /\ last.op = "get_settings"
    /\ Len(settings_log.writes) = 2
    /\ "llm_provider" \in DOMAIN settings_log.loaded
    /\ Naming("llm_provider") = {}
    /\ Naming("asr_mode") = {1, 2}
    /\ settings_log.writes[1]["asr_mode"] # settings_log.writes[2]["asr_mode"]
    /\ last.ret = ("asr_mode" :> settings_log.writes[2]["asr_mode"]) @@ ("llm_provider" :> "nvidia")
    /\ settings_file.map = last.ret

-----------------------------------------------------------------------------
(* The provider in use: NvidiaAIAgent over a changing LLM_PROVIDER *)

\* str.lower() of the form values of FormValues
Lowered(word) ==
    CASE word = "FAST" -> "fast"
      [] word = "OpenAI" -> "openai"
      [] OTHER -> word

\* POST /api/settings (api.py, update_settings): an invalid value is answered 400 before
\* anything is changed; valid ones are saved by settings_mgr, and the provider is put
\* into the environment
api_update_settings(asr_mode, llm_provider) ==
    LET mode == Lowered(asr_mode)
        prov == Lowered(llm_provider)
        updates == (IF asr_mode # "" THEN "asr_mode" :> mode ELSE NoSettings)
                   @@ (IF llm_provider # "" THEN "llm_provider" :> prov ELSE NoSettings)
        answer(raised, ret) ==
            [op |-> "api_update_settings", raised |-> raised, ret |-> ret, requests |-> <<>>]
    IN  /\ Step
        /\ UNCHANGED <<store, now, returned, agent, running>>
        /\ IF asr_mode # "" /\ mode \notin {"free", "fast"}
           THEN /\ last' = answer("HTTPException: 400 Invalid asr_mode", NoSettings)
                /\ UNCHANGED <<environ, settings>>
           ELSE IF llm_provider # "" /\ prov \notin {"nvidia", "groq", "openai"}
           THEN /\ last' = answer("HTTPException: 400 Invalid llm_provider", NoSettings)
                /\ UNCHANGED <<environ, settings>>
           ELSE IF updates = NoSettings
           THEN /\ last' = answer(None, settings_mgr)
                /\ UNCHANGED <<environ, settings>>
           ELSE /\ Saved(updates)
                /\ environ' = IF "llm_provider" \in DOMAIN updates
                              THEN [environ EXCEPT !.LLM_PROVIDER = updates["llm_provider"]]
                              ELSE environ
                /\ last' = answer(None, settings_mgr')

\* os.environ["LLM_PROVIDER"] = value, or its removal (None), by the running process
setenv_LLM_PROVIDER(value) ==
    /\ Step
    /\ environ' = [environ EXCEPT !.LLM_PROVIDER = value]
    /\ last' = [op |-> "setenv", raised |-> None, ret |-> None, requests |-> <<>>]
    /\ UNCHANGED <<store, now, returned, agent, settings, running>>

\* the client, model and provider a request is made with
Triple(a) == [client |-> a.client, model |-> a.model, provider |-> a.provider]

NoTriple == [client |-> NoClient, model |-> "", provider |-> ""]

\* NvidiaAIAgent(api_key): the agent exists if _configure_client did not raise
construct ==
    LET conf == Configured(environ, agent.init_api_key)
    IN  /\ ~agent.constructed
        /\ Step
        /\ agent' = IF conf.raised # None THEN agent
                    ELSE [WithClient(agent, conf) EXCEPT !.constructed = TRUE]
        /\ last' = [op |-> "__init__", raised |-> conf.raised, ret |-> None,
                    requests |-> <<>>, used |-> NoTriple, was |-> ""]
        /\ UNCHANGED <<store, now, returned, environ, settings, running>>

\* chat (stream, from its first pull) and chat_non_stream up to completions.create:
\* _ensure_client, then the request with self.client and self.model
completions_create(stream) ==
    LET e == Ensured(agent, environ)
    IN  /\ agent.constructed
        /\ Step
        /\ agent' = e.agent
        /\ last' = [op |-> IF stream THEN "chat" ELSE "chat_non_stream",
                    raised |-> e.raised, ret |-> None,
                    requests |-> IF e.raised # None THEN <<>> ELSE <<"completion">>,
                    used |-> IF e.raised # None THEN NoTriple ELSE Triple(e.agent),
                    was |-> agent.provider]
        /\ UNCHANGED <<store, now, returned, environ, settings, running>>

\* the model name OPENAI_MODEL gives, when set
OpenAIModels == {None, "gpt-4.1"}

\* a process with any provider named and any of the keys set, the agent not yet made
InitProvider ==
    /\ classes = <<>>
    /\ index_file = <<>>
    /\ class_dirs = {}
    /\ sessions_dirs = {}
    /\ session_files = <<>>
    /\ now = 1
    /\ ops = 0
    /\ returned = [c \in ClassIds |-> <<>>]
    /\ last = Call("init", None, None, None, None)
    /\ environ \in [LLM_PROVIDER : LLMProviders, ASR_MODE : {None}, OPENAI_MODEL : OpenAIModels,
                    NVIDIA_API_KEY : BOOLEAN, GROQ_API_KEY : BOOLEAN, OPENAI_API_KEY : BOOLEAN]
    /\ \E api_key \in BOOLEAN : agent = NoAgent(api_key)
    /\ Constructed(File("absent", NoSettings))
    /\ NotRunning

NextProvider ==
    \/ construct
    \/ \E asr_mode \in {"", "FAST", "slow"}, llm_provider \in {"", "groq", "OpenAI", "nvidia", "mistral"} :
           api_update_settings(asr_mode, llm_provider)
    \/ \E value \in LLMProviders : setenv_LLM_PROVIDER(value)
    \/ \E stream \in BOOLEAN : completions_create(stream)

SpecProvider == InitProvider /\ [][NextProvider]_vars

\* what _configure_client resolves from the environment as it is now
Resolved_now == Configured(environ, agent.init_api_key)

\* C23: when chat or chat_non_stream issues a request, the client, model and provider
\* it uses are the ones LLM_PROVIDER resolves to at the time of the call, whatever the
\* provider was at construction and however it was changed between the calls
C23_RequestUsesProviderOfCallTime ==
    (last.op \in {"chat", "chat_non_stream"} /\ last.requests # <<>>) =>
        /\ Resolved_now.raised = None
        /\ last.used = [client |-> Resolved_now.client, model |-> Resolved_now.model,
                        provider |-> Resolved_now.provider]

\* C23 witness: a request made with the openai client by an agent that held the nvidia
\* client before the call
C23_RequestAfterProviderChange ==
    /\ last.op \in {"chat", "chat_non_stream"}
    /\ last.requests # <<>>
    /\ last.was = "nvidia"
    /\ last.used.provider = "openai"
    /\ last.used.client = Client("default", "OPENAI_API_KEY")

\* C24: with provider openai and no OpenAI key, construction and calls fail with the
\* error about OPENAI_API_KEY and no request is made; with provider groq and no Groq
\* key nothing is raised for that: the nvidia client and model are used, and the only
\* failure is the one for a missing nvidia key
C24_MissingCredential ==
    LET provider == Normalized(environ.LLM_PROVIDER)
        nvidia_key == agent.init_api_key \/ environ.NVIDIA_API_KEY
    IN  last.op \in {"__init__", "chat", "chat_non_stream"} =>
            /\ (provider = "openai" /\ ~environ.OPENAI_API_KEY) =>
                   /\ last.raised = "ValueError: OPENAI_API_KEY environment variable is required"
                   /\ last.requests = <<>>
            /\ (provider = "groq" /\ ~environ.GROQ_API_KEY /\ nvidia_key) =>
                   /\ last.raised = None
                   /\ agent.provider = "nvidia"
                   /\ agent.client.base_url = "https://integrate.api.nvidia.com/v1"
                   /\ agent.model = "nvidia/llama-3.3-nemotron-super-49b-v1.5"
                   /\ last.op # "__init__" => (last.requests # <<>> /\ last.used = Triple(agent))
            /\ (provider = "groq" /\ ~environ.GROQ_API_KEY /\ ~nvidia_key) =>
                   /\ last.raised = "ValueError: API key is required"
                   /\ last.requests = <<>>

\* C24 witness: a request made with the nvidia client while groq is named and no Groq
\* key is set
C24_GroqNamedNvidiaUsed ==
    /\ last.op \in {"chat", "chat_non_stream"}
    /\ Normalized(environ.LLM_PROVIDER) = "groq"
    /\ ~environ.GROQ_API_KEY
    /\ last.requests # <<>>
    /\ last.used.provider = "nvidia"

-----------------------------------------------------------------------------
(* process_video (integrated_agent.py) and the ASR mode *)

\* SettingsManager.get(key, default)
Get(cache, key, default) == IF key \in DOMAIN cache THEN cache[key] ELSE default

\* lines 58-61: the mode from ASR_MODE if set, else from the agent's own settings,
\* lowered, and "free" for anything that is not a mode
AsrMode(env, cache) ==
    LET asr_mode == Lowered(Or(env.ASR_MODE, Get(cache, "asr_mode", "free")))
    IN  IF asr_mode \notin {"free", "fast"} THEN "free" ELSE asr_mode

\* process_video: the mode is chosen and put into the environment, where the
\* transcriber reads it; a blank transcript raises; otherwise add_class_session.
\* transcript: what transcribe_with_fallback returns.
process_video(c, session_title, transcript, auto_summarize, tok, t, insights_reply, summary_reply) ==
    /\ environ' = [environ EXCEPT !.ASR_MODE = AsrMode(environ, agent_settings)]
    /\ UNCHANGED <<agent, settings, running>>
    /\ IF transcript \in {"", " "}
       THEN /\ Step
            /\ last' = [op |-> "process_video", cid |-> c, raised |-> "ValueError: Transcription failed or produced empty result",
                        ret |-> None, requests |-> <<>>]
            /\ UNCHANGED <<store, now, returned>>
       ELSE ClassSessionAdded(c, transcript, session_title, auto_summarize, tok, t,
                              insights_reply, summary_reply)

NextVideo ==
    \/ \E inp \in {SeedInput}, hex \in {"0f3a2c"}, t \in {now} : create_class(inp, hex, t)
    \/ \E asr_mode \in {"", "free", "FAST", "slow"}, llm_provider \in {"", "groq"} :
           api_update_settings(asr_mode, llm_provider)
    \/ \E c \in {SeedId}, session_title \in {"Week 1"}, transcript \in {"", "X"},
          auto_summarize \in BOOLEAN, tok \in Hex10, t \in {now},
          insights_reply \in {ProviderError}, summary_reply \in {"S1"} :
           process_video(c, session_title, transcript, auto_summarize, tok, t,
                         insights_reply, summary_reply)

\* the process starts with ASR_MODE not set and some settings.json
SpecVideo == InitSettings /\ [][NextVideo]_vars

\* the asr_mode stored in the settings now ("free" when none is stored)
StoredMode == Get(_load(settings_file), "asr_mode", "free")

\* C30: with ASR_MODE not set by the operator, every process_video transcribes with the
\* asr_mode stored in the settings at that time, also after the settings were updated
\* in the running process and after an earlier process_video
C30_VideoUsesStoredMode ==
    [][ (environ'.ASR_MODE # environ.ASR_MODE \/ last'.op \in {"process_video", "add_class_session"})
            => environ'.ASR_MODE = StoredMode ]_vars

-----------------------------------------------------------------------------
(* A streamed answer pulled fragment by fragment (ai_agent.py, lines 101-119) *)

MaxChunks == 3

\* the deltas a chunk can carry
Deltas ==
    { [reasoning |-> None, content |-> None], [reasoning |-> None, content |-> "c"],
      [reasoning |-> "r", content |-> None], [reasoning |-> "r", content |-> "c"],
      [reasoning |-> "", content |-> ""] }

\* what the provider streams for the request
ChunkSeqs == UNION { [1..n -> Deltas] : n \in 0..MaxChunks }

\* chat(stream=True) has returned its generator; nothing of its body has run
InitStream ==
    /\ classes = <<>>
    /\ index_file = <<>>
    /\ class_dirs = {}
    /\ sessions_dirs = {}
    /\ session_files = <<>>
    /\ now = 1
    /\ ops = 0
    /\ returned = [c \in ClassIds |-> <<>>]
    /\ last = Call("init", None, None, None, None)
    /\ environ = [LLM_PROVIDER |-> None, ASR_MODE |-> None, OPENAI_MODEL |-> None,
                  NVIDIA_API_KEY |-> TRUE, GROQ_API_KEY |-> FALSE, OPENAI_API_KEY |-> FALSE]
    /\ agent = [WithClient(NoAgent(TRUE), Configured(environ, TRUE)) EXCEPT !.constructed = TRUE]
    /\ Constructed(File("absent", NoSettings))
    /\ \E chunks \in ChunkSeqs :
           generator = [NoStream EXCEPT !.chunks = chunks, !.state = "created"]
    /\ threads = <<>>
    /\ classes2 = <<>>

\* the chunks after the ones read that make the loop body yield
Yielding(g) == { j \in (g.read + 1)..Len(g.chunks) : ChunkFragments(g.chunks[j]) # <<>> }

\* the least of a non-empty set of numbers
Earliest(S) == CHOOSE i \in S : \A j \in S : i <= j

\* next(generator): the body runs to its next yield.  The first pull sends the request.
\* After a yield of reasoning the content of the same chunk comes next; otherwise the
\* loop takes chunks from the provider until one yields, or until there are no more.
pull ==
    LET g == generator
        j == Earliest(Yielding(g))
        fragments == ChunkFragments(g.chunks[j])
    IN  /\ g.state \in {"created", "running"}
        /\ generator' =
               IF g.pending # <<>>
               THEN [g EXCEPT !.delivered = Append(@, Head(g.pending)),
                              !.pending = Tail(@), !.pulls = @ + 1]
               ELSE IF Yielding(g) = {}
               THEN [g EXCEPT !.read = Len(g.chunks), !.state = "done", !.pulls = @ + 1]
               ELSE [g EXCEPT !.read = j, !.delivered = Append(@, Head(fragments)),
                              !.pending = Tail(fragments), !.state = "running",
                              !.pulls = @ + 1]
        /\ last' = [op |-> "pull", from |-> g.read,
                    raised |-> IF generator'.state = "done" THEN "StopIteration" ELSE None,
                    ret |-> None,
                    requests |-> IF g.state = "created" THEN <<"completion">> ELSE <<>>]
        /\ UNCHANGED <<store, now, ops, returned, environ, agent, settings, threads, classes2>>

\* the consumer stops: the generator is closed or dropped, and its body never resumes
close ==
    /\ generator.state \in {"created", "running"}
    /\ generator' = [generator EXCEPT !.state = "closed"]
    /\ last' = [op |-> "close", from |-> generator.read, raised |-> None, ret |-> None,
                requests |-> <<>>]
    /\ UNCHANGED <<store, now, ops, returned, environ, agent, settings, threads, classes2>>

NextStream ==
    \/ pull
    \/ close

SpecStream == InitStream /\ [][NextStream]_vars

\* a is the beginning of b
Prefix(a, b) == Len(a) <= Len(b) /\ a = SubSeq(b, 1, Len(a))

\* the texts of a sequence of fragments
Texts(fragments) == SelectSeq(fragments, LAMBDA x : x # "")

\* the texts the provider delivers with the chunks, in arrival order, the reasoning
\* of a chunk before its content
RECURSIVE ProviderTexts(_)
ProviderTexts(chunks) ==
    IF chunks = <<>> THEN <<>>
    ELSE Texts(<< Or(Head(chunks).reasoning, ""), Or(Head(chunks).content, "") >>)
             \o ProviderTexts(Tail(chunks))

\* every text of the chunks read so far is forwarded exactly once and in arrival
\* order, or is the content still to come of the chunk read last; a pull forwards at
\* most one fragment; an exhausted generator has forwarded every text
ForwardedOnceInOrder ==
    /\ Prefix(Texts(generator'.delivered), ProviderTexts(generator'.chunks))
    /\ Texts(generator'.delivered) \o Texts(generator'.pending)
           = ProviderTexts(SubSeq(generator'.chunks, 1, generator'.read))
    /\ Len(generator'.delivered) <= Len(generator.delivered) + 1
    /\ generator'.state = "done" => Texts(generator'.delivered) = ProviderTexts(generator'.chunks)

\* chunks are read by pulls only, and none once the consumer has stopped
NothingReadWithoutPull ==
    /\ generator'.read # generator.read => generator'.pulls = generator.pulls + 1
    /\ generator.state = "closed" => generator' = generator

\* C28 as stated: every text is forwarded exactly once and in arrival order, each pull
\* reads at most one further provider chunk, and nothing is read once the consumer
\* has stopped pulling
C28_PullReadsAtMostOneChunk ==
    [][ /\ ForwardedOnceInOrder
        /\ NothingReadWithoutPull
        /\ generator'.read <= generator.read + 1 ]_vars

\* C28 amended: every text is forwarded exactly once and in arrival order; a pull reads
\* no chunk when the content of the current chunk is still to be forwarded, and
\* otherwise reads chunks up to the first one that yields a fragment, so that every
\* chunk it reads before that one carries no text; nothing is read once the consumer
\* has stopped pulling
C28_PullReadsUpToNextFragment ==
    [][ /\ ForwardedOnceInOrder
        /\ NothingReadWithoutPull
        /\ generator.pending # <<>> => generator'.read = generator.read
        /\ generator'.state # "done" =>
               \A j \in (generator.read + 1)..(generator'.read - 1) :
                   ProviderTexts(<<generator'.chunks[j]>>) = <<>> ]_vars

\* C28 witness: a pull that read two chunks, the first with neither reasoning nor
\* content, and forwarded the text of the second
C28_PullReadTwoChunks ==
    /\ last.op = "pull"
    /\ generator.read = last.from + 2
    /\ generator.chunks[last.from + 1] = [reasoning |-> None, content |-> None]
    /\ generator.delivered # <<>>
    /\ generator.delivered[Len(generator.delivered)] \in {"r", "c"}

-----------------------------------------------------------------------------
(* Concurrent calls of the store: two threads, one or two ClassesManager objects
   over the same storage root (classes_manager.py, add_session lines 129-154 and
   update_session_summary lines 182-189, statement by statement) *)

Threads == {1, 2}

\* the token uuid4 gives each thread, and the content each thread adds
NewToken == <<"9a8b7c6d5e", "c3d4e5f6a7">>

NewContent == <<"P", "Q">>

\* the class of InitSessions after two sessions were added to it at times 2 and 3
SeedClass == Counted(Counted(ClassObj(SeedInput, SeedId, 1), 2), 3)

SeedSessions ==
    LET x == [title |-> "Lecture", content |-> "X", metadata |-> [given |-> FALSE, val |-> {}]]
        y == [title |-> "", content |-> "Y", metadata |-> [given |-> TRUE, val |-> {<<"source", "pdf">>}]]
    IN  WriteFile(WriteFile(<<>>, SeedId, "5d0c1a9e3b", Payload(SeedId, "5d0c1a9e3b", x, 2)),
                  SeedId, "e42f7706aa", Payload(SeedId, "e42f7706aa", y, 3))

\* a call as a thread starts it: its arguments, its position, its local variables
Program(op, mgr, sid, content, summary) ==
    [op |-> op, mgr |-> mgr, cid |-> SeedId, sid |-> sid, content |-> content,
     summary |-> summary, pc |-> "start", count |-> 0, created_at |-> NoTime,
     sess |-> None, raised |-> None]

\* the calls thread t can be making
Programs(t) ==
    { Program("add_session", mgr, NewToken[t], NewContent[t], None) : mgr \in {1, 2} }
        \cup { Program("update_session_summary", 1, sid, None, summary) :
                 sid \in SessionsOf(SeedSessions, SeedId), summary \in Summaries }

\* both managers have loaded the index; each thread is about to make its call
InitRace ==
    /\ classes = WithClass(<<>>, SeedId, SeedClass)
    /\ classes2 = classes
    /\ index_file = classes
    /\ class_dirs = {SeedId}
    /\ sessions_dirs = {SeedId}
    /\ session_files = SeedSessions
    /\ now = 4
    /\ ops = 0
    /\ returned = [c \in ClassIds |-> IF c = SeedId THEN <<"5d0c1a9e3b", "e42f7706aa">> ELSE <<>>]
    /\ last = Call("add_session", SeedId, "e42f7706aa", None, "e42f7706aa")
    /\ environ = [LLM_PROVIDER |-> None, ASR_MODE |-> None, OPENAI_MODEL |-> None,
                  NVIDIA_API_KEY |-> TRUE, GROQ_API_KEY |-> FALSE, OPENAI_API_KEY |-> FALSE]
    /\ agent = [WithClient(NoAgent(TRUE), Configured(environ, TRUE)) EXCEPT !.constructed = TRUE]
    /\ Constructed(File("absent", NoSettings))
    /\ generator = NoStream
    /\ threads \in { f \in [Threads -> UNION { Programs(t) : t \in Threads }] :
                       \A t \in Threads : f[t] \in Programs(t) }

\* self.classes of the manager a thread calls
Index(mgr) == IF mgr = 1 THEN classes ELSE classes2

\* thread t goes on to pc with its record changed to rec
Goes(t, rec, pc) ==
    /\ threads' = [threads EXCEPT ![t] = [rec EXCEPT !.pc = pc]]
    /\ last' = [op |-> threads[t].pc, thread |-> t, raised |-> rec.raised,
                ret |-> None, requests |-> <<>>]
    /\ UNCHANGED <<now, ops, environ, agent, settings, generator>>

\* the thread is in add_session at pc
At(t, op, pc) == threads[t].op = op /\ threads[t].pc = pc

\* lines 130-133: the class is looked up in self.classes, the directories are made
add_session_check(t) ==
    LET th == threads[t]
    IN  /\ At(t, "add_session", "start")
        /\ IF th.cid \notin DOMAIN Index(th.mgr)
           THEN /\ Goes(t, [th EXCEPT !.raised = "ValueError: Class not found"], "done")
                /\ UNCHANGED <<store, classes2, returned>>
           ELSE /\ Goes(t, th, "write")
                /\ _ensure_class_dirs(th.cid)
                /\ UNCHANGED <<classes, classes2, index_file, session_files, returned>>

\* lines 134-146: the payload is built and the session file written
add_session_write(t) ==
    LET th == threads[t]
        inp == [title |-> "Lecture", content |-> th.content,
                metadata |-> [given |-> FALSE, val |-> {}]]
        payload == Payload(th.cid, th.sid, inp, now)
    IN  /\ At(t, "add_session", "write")
        /\ session_files' = WriteFile(session_files, th.cid, th.sid, payload)
        /\ Goes(t, [th EXCEPT !.created_at = payload.created_at], "read")
        /\ UNCHANGED <<classes, classes2, index_file, class_dirs, sessions_dirs, returned>>

\* line 150, right-hand side: int(c.get("sessions_count", 0))
add_session_read(t) ==
    LET th == threads[t]
    IN  /\ At(t, "add_session", "read")
        /\ Goes(t, [th EXCEPT !.count = Index(th.mgr)[th.cid].sessions_count], "count")
        /\ UNCHANGED <<store, classes2, returned>>

\* the count taken from the record as it is at the time of the store
CountedFrom_current(cl, count, created_at) == Counted(cl, created_at)

\* lines 150-152: the count read, plus one, is stored, and the two times are set
CountedFrom(cl, count, created_at) ==
    [cl EXCEPT !.sessions_count = count + 1,
               !.updated_at = created_at,
               !.last_session_at = created_at]

\* line 150, the store, and lines 151-152, in the index of the thread's manager
add_session_count(t) ==
    LET th == threads[t]
        idx == WithClass(Index(th.mgr), th.cid,
                         CountedFrom(Index(th.mgr)[th.cid], th.count, th.created_at))
    IN  /\ At(t, "add_session", "count")
        /\ classes' = IF th.mgr = 1 THEN idx ELSE classes
        /\ classes2' = IF th.mgr = 2 THEN idx ELSE classes2
        /\ Goes(t, th, "save")
        /\ UNCHANGED <<index_file, class_dirs, sessions_dirs, session_files, returned>>

\* line 153: _save_index dumps the whole self.classes of the manager; the call returns
add_session_save(t) ==
    LET th == threads[t]
    IN  /\ At(t, "add_session", "save")
        /\ index_file' = Index(th.mgr)
        /\ returned' = [returned EXCEPT ![th.cid] = Append(@, th.sid)]
        /\ Goes(t, th, "done")
        /\ UNCHANGED <<classes, classes2, class_dirs, sessions_dirs, session_files>>

\* lines 183-185: sess = get_session(...); return if there is none
update_session_summary_get(t) ==
    LET th == threads[t]
    IN  /\ At(t, "update_session_summary", "start")
        /\ IF HasSession(th.cid, th.sid)
           THEN Goes(t, [th EXCEPT !.sess = get_session(th.cid, th.sid)], "put")
           ELSE Goes(t, th, "done")
        /\ UNCHANGED <<store, classes2, returned>>

\* the summary put into every record of the class
Rewritten_class_wide(files, c, s, sess, summary) ==
    [k \in DOMAIN files \cup {<<c, s>>} |->
        IF k = <<c, s>> THEN [sess EXCEPT !.summary = summary]
        ELSE IF k[1] = c THEN [files[k] EXCEPT !.summary = summary] ELSE files[k]]

\* lines 186-189: the record that was read, with the summary set, is written back
Rewritten(files, c, s, sess, summary) ==
    WriteFile(files, c, s, [sess EXCEPT !.summary = summary])

update_session_summary_put(t) ==
    LET th == threads[t]
    IN  /\ At(t, "update_session_summary", "put")
        /\ session_files' = Rewritten(session_files, th.cid, th.sid, th.sess, th.summary)
        /\ Goes(t, th, "done")
        /\ UNCHANGED <<classes, classes2, index_file, class_dirs, sessions_dirs, returned>>

NextRace ==
    \/ \E t \in Threads : add_session_check(t)
    \/ \E t \in Threads : add_session_write(t)
    \/ \E t \in Threads : add_session_read(t)
    \/ \E t \in Threads : add_session_count(t)
    \/ \E t \in Threads : add_session_save(t)
    \/ \E t \in Threads : update_session_summary_get(t)
    \/ \E t \in Threads : update_session_summary_put(t)

SpecRace == InitRace /\ [][NextRace]_vars

\* both calls have returned
Finished == \A t \in Threads : threads[t].pc = "done"

\* both threads add a session (to the same class)
BothAdd == \A t \in Threads : threads[t].op = "add_session"

\* the record thread t added is persisted with the content t gave
Persisted(t) ==
    /\ HasSession(threads[t].cid, threads[t].sid)
    /\ get_session(threads[t].cid, threads[t].sid).content = threads[t].content

\* C26: after two concurrent add_session calls on the same class both session records
\* are persisted and classes.json is the whole index of the manager that saved last;
\* sessions_count has gone up by one only, an update being lost, exactly when both
\* calls read the same count (the two cycles overlapped on one manager, or each call
\* went through its own manager), and by two otherwise
C26_CountGoesUpOnceWhenCyclesOverlap ==
    (threads # <<>> /\ BothAdd /\ Finished) =>
        /\ \A t \in Threads : Persisted(t)
        /\ last.op = "save"
        /\ index_file = Index(threads[last.thread].mgr)
        /\ index_file[SeedId].sessions_count =
               IF threads[1].count = threads[2].count
               THEN SeedClass.sessions_count + 1
               ELSE SeedClass.sessions_count + 2

\* C26 witness: two threads on one manager have added their sessions, both records
\* are persisted, and sessions_count is one more than before
C26_BothPersistedCountedOnce ==
    /\ threads # <<>>
    /\ BothAdd
    /\ Finished
    /\ threads[1].mgr = threads[2].mgr
    /\ \A t \in Threads : Persisted(t)
    /\ index_file[SeedId].sessions_count = SeedClass.sessions_count + 1
    /\ Cardinality(SessionsOf(session_files, SeedId)) = Cardinality(SessionsOf(SeedSessions, SeedId)) + 2

\* the session a thread's call is about
Target(t) == <<threads[t].cid, threads[t].sid>>

\* the record of thread t's session is as t's call leaves it when nothing else writes
\* it: the content t added and no summary, or the summary t wrote on the content
\* the session had
EndsWithOwn(t) ==
    /\ Target(t) \in DOMAIN session_files
    /\ IF threads[t].op = "add_session"
       THEN /\ session_files[Target(t)].content = threads[t].content
            /\ session_files[Target(t)].summary = None
       ELSE /\ session_files[Target(t)].content = SeedSessions[Target(t)].content
            /\ session_files[Target(t)].summary = threads[t].summary

\* C27: a step of a call on one session leaves every other session's record as it
\* is, and when two concurrent calls (add_session, update_session_summary) on
\* different sessions have both returned, each session's record holds its own
\* content and the summary last written to it
C27_NoCrossSessionContention ==
    [][ \A t \in Threads :
            threads'[t] # threads[t] =>
                /\ \A k \in (DOMAIN session_files \cup DOMAIN session_files') \ {Target(t)} :
                       /\ k \in DOMAIN session_files
                       /\ k \in DOMAIN session_files'
                       /\ session_files'[k] = session_files[k]
                /\ (Target(1) # Target(2) /\ Finished') =>
                       /\ \A u \in Threads : EndsWithOwn(u)'
                       /\ \A k \in DOMAIN SeedSessions \ {Target(1), Target(2)} :
                              session_files'[k] = SeedSessions[k] ]_vars

\* C27 witness: an add_session and an update_session_summary of another session have
\* run interleaved and both returned: the new record has its content, the updated one
\* its summary
C27_AddAndUpdateInterleaved ==
    /\ threads # <<>>
    /\ Finished
    /\ threads[1].op = "add_session"
    /\ threads[2].op = "update_session_summary"
    /\ last.thread = 1
    /\ last.op = "save"
    /\ EndsWithOwn(1)
    /\ EndsWithOwn(2)
====
